---- MODULE Spec2Model ----
(***************************************************************************)
(* A model of clerk/mcp-tools: the four store adapters (fs, Redis,         *)
(* PostgreSQL, SQLite), the legacy synchronous file store, and the Client  *)
(* Core (session creation, reconstruction and the authorization-delegate   *)
(* hooks).                                                                 *)
(*                                                                         *)
(* JavaScript values are tagged tuples; JSON text is a sequence of lexical *)
(* symbols (a quote, a brace, a word, a digit), so that JSON.stringify and *)
(* JSON.parse are real conversions and a string's content is itself text   *)
(* that can be parsed again.                                               *)
(***************************************************************************)
EXTENDS Integers, Sequences, FiniteSets, TLC

\* ------------------------------------------------------------------------
\* Bounds
\* ------------------------------------------------------------------------
MaxTicks == 1
MaxWrites == 3

\* ------------------------------------------------------------------------
\* JavaScript values
\* ------------------------------------------------------------------------
Q == "\""
BS == "\\"

Undef == <<"undef">>
Null == <<"null">>
Bool(b) == <<"bool", b>>
Num(n) == <<"num", n>>
Str(s) == <<"str", s>>
List(xs) == <<"list", xs>>
Obj(ps) == <<"obj", ps>>
\* an Error object that was thrown: its kind and the value its message names
Thrown(kind, what) == <<"throw", kind, what>>

Tag(v) == v[1]
IsThrown(v) == Tag(v) = "throw"

\* typeof v === "object"
TypeofObject(v) == Tag(v) \in {"null", "list", "obj"}

\* the falsy values of JavaScript: undefined, null, false, 0 and ""
Falsy(v) ==
  \/ Tag(v) \in {"undef", "null"}
  \/ Tag(v) = "bool" /\ v[2] = FALSE
  \/ Tag(v) = "num" /\ v[2] = 0
  \/ Tag(v) = "str" /\ v[2] = <<>>

RECURSIVE IndexOfKey(_, _, _)
IndexOfKey(ps, k, i) ==
  IF i > Len(ps) THEN 0
  ELSE IF ps[i][1] = k THEN i
  ELSE IndexOfKey(ps, k, i + 1)

\* k in o
HasProp(o, k) == Tag(o) = "obj" /\ IndexOfKey(o[2], k, 1) # 0

\* o[k]: undefined when the property does not exist
GetProp(o, k) ==
  IF HasProp(o, k) THEN o[2][IndexOfKey(o[2], k, 1)][2] ELSE Undef

\* o[k] = v: an existing property keeps its position, a new one is appended
SetProp(o, k, v) ==
  LET i == IndexOfKey(o[2], k, 1) IN
  IF i = 0 THEN Obj(Append(o[2], <<k, v>>))
  ELSE Obj([o[2] EXCEPT ![i] = <<k, v>>])

\* delete o[k]
DelProp(o, k) ==
  LET i == IndexOfKey(o[2], k, 1) IN
  IF i = 0 THEN o
  ELSE Obj(SubSeq(o[2], 1, i - 1) \o SubSeq(o[2], i + 1, Len(o[2])))

\* Object.keys(o), for keys that are not integer-like
ObjectKeys(o) == [i \in 1..Len(o[2]) |-> o[2][i][1]]

\* ------------------------------------------------------------------------
\* JSON.stringify
\* ------------------------------------------------------------------------
DigitSyms == <<"0", "1", "2", "3", "4", "5", "6", "7", "8", "9">>

RECURSIVE DigitsOf(_)
DigitsOf(n) ==
  IF n < 10 THEN <<DigitSyms[n + 1]>>
  ELSE DigitsOf(n \div 10) \o <<DigitSyms[(n % 10) + 1]>>

RECURSIVE Escape(_)
Escape(s) ==
  IF s = <<>> THEN <<>>
  ELSE IF Head(s) \in {Q, BS} THEN <<BS, Head(s)>> \o Escape(Tail(s))
  ELSE <<Head(s)>> \o Escape(Tail(s))

Quote(s) == <<Q>> \o Escape(s) \o <<Q>>

RECURSIVE JSONstringify(_), StringifyItems(_, _), StringifyProps(_, _, _)
JSONstringify(v) ==
  CASE Tag(v) = "null" -> <<"null">>
    [] Tag(v) = "bool" -> IF v[2] THEN <<"true">> ELSE <<"false">>
    [] Tag(v) = "num" -> DigitsOf(v[2])
    [] Tag(v) = "str" -> Quote(v[2])
    [] Tag(v) = "list" -> <<"[">> \o StringifyItems(v[2], 1) \o <<"]">>
    [] Tag(v) = "obj" -> <<"{">> \o StringifyProps(v[2], 1, TRUE) \o <<"}">>
    [] OTHER -> <<"null">>

\* an undefined array element is written as null
StringifyItems(xs, i) ==
  IF i > Len(xs) THEN <<>>
  ELSE (IF i > 1 THEN <<",">> ELSE <<>>)
       \o JSONstringify(xs[i]) \o StringifyItems(xs, i + 1)

\* a property whose value is undefined is left out
StringifyProps(ps, i, first) ==
  IF i > Len(ps) THEN <<>>
  ELSE IF Tag(ps[i][2]) = "undef" THEN StringifyProps(ps, i + 1, first)
  ELSE (IF first THEN <<>> ELSE <<",">>)
       \o Quote(ps[i][1]) \o <<":">> \o JSONstringify(ps[i][2])
       \o StringifyProps(ps, i + 1, FALSE)

\* ------------------------------------------------------------------------
\* JSON.parse: recursive descent; a result is <<ok, value, rest>>
\* ------------------------------------------------------------------------
PFail == <<FALSE, Undef, <<>>>>

IsDigit(c) == \E i \in 1..10 : DigitSyms[i] = c
DigitVal(c) == (CHOOSE i \in 1..10 : DigitSyms[i] = c) - 1

RECURSIVE ParseDigits(_, _)
ParseDigits(t, acc) ==
  IF t # <<>> /\ IsDigit(Head(t))
  THEN ParseDigits(Tail(t), acc * 10 + DigitVal(Head(t)))
  ELSE <<TRUE, Num(acc), t>>

\* a leading zero may not be followed by another digit
ParseNumber(t) ==
  IF Head(t) = "0" /\ Len(t) > 1 /\ IsDigit(t[2]) THEN PFail
  ELSE ParseDigits(t, 0)

\* t starts after the opening quote
RECURSIVE ParseChars(_, _)
ParseChars(t, acc) ==
  IF t = <<>> THEN PFail
  ELSE IF Head(t) = Q THEN <<TRUE, acc, Tail(t)>>
  ELSE IF Head(t) = BS
       THEN IF Len(t) > 1 /\ t[2] \in {Q, BS}
            THEN ParseChars(Tail(Tail(t)), Append(acc, t[2]))
            ELSE PFail
  ELSE ParseChars(Tail(t), Append(acc, Head(t)))

\* the one member of a singleton; binding a result through a singleton set
\* evaluates it once
Only(S) == CHOOSE x \in S : TRUE

RECURSIVE ParseValue(_), ParseItems(_, _), ParseProps(_, _)
ParseValue(t) ==
  IF t = <<>> THEN PFail
  ELSE CASE Head(t) = "null" -> <<TRUE, Null, Tail(t)>>
         [] Head(t) = "true" -> <<TRUE, Bool(TRUE), Tail(t)>>
         [] Head(t) = "false" -> <<TRUE, Bool(FALSE), Tail(t)>>
         [] IsDigit(Head(t)) -> ParseNumber(t)
         [] Head(t) = Q ->
              Only({IF r[1] THEN <<TRUE, Str(r[2]), r[3]>> ELSE PFail :
                      r \in {ParseChars(Tail(t), <<>>)}})
         [] Head(t) = "[" ->
              IF Len(t) > 1 /\ t[2] = "]" THEN <<TRUE, List(<<>>), Tail(Tail(t))>>
              ELSE ParseItems(Tail(t), <<>>)
         [] Head(t) = "{" ->
              IF Len(t) > 1 /\ t[2] = "}" THEN <<TRUE, Obj(<<>>), Tail(Tail(t))>>
              ELSE ParseProps(Tail(t), Obj(<<>>))
         [] OTHER -> PFail

\* t starts at an element
ParseItems(t, acc) ==
  Only({IF ~r[1] \/ r[3] = <<>> THEN PFail
        ELSE IF Head(r[3]) = "," THEN ParseItems(Tail(r[3]), Append(acc, r[2]))
        ELSE IF Head(r[3]) = "]" THEN <<TRUE, List(Append(acc, r[2])), Tail(r[3])>>
        ELSE PFail :
          r \in {ParseValue(t)}})

\* t starts at a property name; a repeated name keeps its last value
ParseProps(t, acc) ==
  IF t = <<>> \/ Head(t) # Q THEN PFail
  ELSE Only({
    IF ~k[1] \/ k[3] = <<>> \/ Head(k[3]) # ":" THEN PFail
    ELSE Only({IF ~r[1] \/ r[3] = <<>> THEN PFail
               ELSE IF Head(r[3]) = ","
                    THEN ParseProps(Tail(r[3]), SetProp(acc, k[2], r[2]))
               ELSE IF Head(r[3]) = "}"
                    THEN <<TRUE, SetProp(acc, k[2], r[2]), Tail(r[3])>>
               ELSE PFail :
                 r \in {ParseValue(Tail(k[3]))}}) :
      k \in {ParseChars(Tail(t), <<>>)}})

\* JSON.parse(text) succeeds when one value spans the whole text
CanParse(t) == \E r \in {ParseValue(t)} : r[1] /\ r[3] = <<>>
JSONparse(t) == ParseValue(t)[2]

\* String(v) for a primitive, as JSON.parse applies it to a non-string argument
ToStringPrim(v) ==
  CASE Tag(v) = "str" -> v[2]
    [] Tag(v) = "num" -> DigitsOf(v[2])
    [] Tag(v) = "bool" -> IF v[2] THEN <<"true">> ELSE <<"false">>
    [] OTHER -> <<"undefined">>

\* ------------------------------------------------------------------------
\* Time.  The clock counts days; new Date().toISOString() writes the clock
\* as a string and new Date(s).getTime() reads it back.
\* ------------------------------------------------------------------------
toISOString(t) == Str(DigitsOf(t))
getTime(v) == IF Tag(v) = "str" /\ v[2] # <<>> THEN ParseDigits(v[2], 0)[2][2] ELSE 0

\* a.sort((x, y) => f[x] - f[y]): insertion into a sorted prefix, stable
RECURSIVE InsertSorted(_, _, _)
InsertSorted(s, x, f) ==
  IF s = <<>> THEN <<x>>
  ELSE IF f[x] < f[Head(s)] THEN <<x>> \o s
  ELSE <<Head(s)>> \o InsertSorted(Tail(s), x, f)

RECURSIVE StableSort(_, _)
StableSort(s, f) ==
  IF s = <<>> THEN <<>>
  ELSE InsertSorted(StableSort(SubSeq(s, 1, Len(s) - 1), f), s[Len(s)], f)

\* the orders in which a backend may return the members x of the pairs
\* <<x, rank>> in P when asked to order them by rank: any arrangement that is
\* ascending in rank
Orderings(P) ==
  {[i \in 1..Cardinality(P) |-> s[i][1]] :
     s \in {s \in [1..Cardinality(P) -> P] :
              /\ \A i, j \in 1..Cardinality(P) : i # j => s[i] # s[j]
              /\ \A i, j \in 1..Cardinality(P) : i < j => s[i][2] <= s[j][2]}}

SeqRange(s) == {s[i] : i \in 1..Len(s)}

\* ------------------------------------------------------------------------
\* Inputs of the store operations
\* ------------------------------------------------------------------------
StoreKeys == {<<"k1">>, <<"k2">>}

\* one value of every JSON kind, and strings whose content is itself JSON
\* text; the caller of one store instance writes the values of one payload
Payloads ==
  { {Null, Bool(TRUE)},
    {Num(5), Str(<<"sid">>)},
    {Str(<<"5">>), Str(<<Q, "sid", Q>>)},
    {List(<<Str(<<"sid">>)>>), Obj(<<<< <<"a">>, Num(5) >>>>)} }

StoreValues == UNION Payloads

TickSteps == {1, 30, 31}
CleanupDays == {30}
Kinds == {"fs", "redis", "postgres", "sqlite"}
\* the ttl option of the Redis adapter, in days; 0 is "not set"
TtlOptions == {0, 1}

VARIABLES
  payload,     \* the values the caller of this store instance writes
  kind,        \* which adapter this store instance is
  ttl,         \* RedisStoreConfig.ttl
  now,         \* the clock, in days
  ticks,       \* how often the clock has advanced
  writes,      \* how many write calls were made
  fsFile,      \* createFsStore: the text of the file at filePath, or NoFile
  redisDb,     \* the Redis keyspace: <<key, text, expireAt>> entries
  pgTable,     \* the PostgreSQL table: rows
  sqliteTable, \* the SQLite table: rows
  born,        \* history: when each key that exists was first written
  res          \* the last store call and what it returned

storeVars == <<payload, kind, ttl, now, ticks, writes, fsFile, redisDb, pgTable,
               sqliteTable, born, res>>

VARIABLES
  mode,        \* the store handed to the Client Core: "legacy" or "sqlite"
  fsStore,     \* the legacy file store: its module-wide in-memory mapping
  root,        \* the legacy file store: the file at root, or NoFile
  uuids,       \* how many values randomUUID has produced
  delegates,   \* the authProvider objects the application holds
  sessions,    \* history: what each session was created with and went through
  ret          \* the last Client Core call and what it returned

clientVars == <<mode, fsStore, root, uuids, delegates, sessions, ret>>

VARIABLES
  invoked,     \* the last call of a Server Core function and what it returned
  exchange,    \* the last request an auth gate handled and what became of it
  backend,     \* a store adapter's connection: its connect promise, the
               \* operations waiting for it, the commands sent to the backend
  suspended    \* createFsStore: the calls of write and delete that are
               \* suspended at the await of writeStoreData, each with the
               \* data it is about to write

serverVars == <<invoked, exchange, backend, suspended>>

vars == <<storeVars, clientVars, serverVars>>

NoFile == <<"ENOENT">>
NoCall == [op |-> "none", k |-> <<>>, v |-> Undef, out |-> Undef, found |-> "n/a"]
Call(op, k, v, out) == [op |-> op, k |-> k, v |-> v, out |-> out, found |-> "n/a"]

ParseFailure(k) == Thrown("ParseError", k)

\* ------------------------------------------------------------------------
\* createFsStore: one JSON document, read and rewritten on every call.
\* The file is kept as the document its text parses to: writing a document
\* stringifies it and parses the text, reading returns what was parsed.
\* ------------------------------------------------------------------------
\* fs.writeFile(filePath, text)
FileOf(text) ==
  Only({IF r[1] /\ r[3] = <<>> THEN r[2] ELSE <<"unparseable", text>> :
          r \in {ParseValue(text)}})

EmptyDoc == FileOf(<<"{", "}">>)

\* what a call of the fs store finds at filePath
FileState(file) ==
  IF file = NoFile THEN "missing"
  ELSE IF Tag(file) = "unparseable" THEN "unparseable"
  ELSE "document"

FsCall(op, k, v, out) == [Call(op, k, v, out) EXCEPT !.found = FileState(fsFile)]

\* the read that starts afresh in memory only and leaves the file as it is
readStoreData_InMemoryOnly(file) ==
  IF file = NoFile THEN <<EmptyDoc, Obj(<<>>)>>
  ELSE IF Tag(file) # "unparseable" THEN <<file, file>>
  ELSE <<file, Obj(<<>>)>>

\* readStoreData: <<the file afterwards, the data returned>>
readStoreData(file) ==
  IF file = NoFile THEN <<EmptyDoc, Obj(<<>>)>>
  ELSE IF Tag(file) # "unparseable" THEN <<file, file>>
  ELSE <<EmptyDoc, Obj(<<>>)>>

\* writeStoreData: the file afterwards (indentation is not modelled)
writeStoreData(data) == FileOf(JSONstringify(data))

Envelope(v, created, updated) ==
  Obj(<< << <<"value">>, v >>,
         << <<"created_at">>, created >>,
         << <<"updated_at">>, updated >> >>)

\* data[k]?.created_at || new Date().toISOString()
FsCreatedAt(data, k, t) ==
  LET c == GetProp(GetProp(data, k), <<"created_at">>) IN
  IF Falsy(c) THEN toISOString(t) ELSE c

FsWriteData(data, k, v, t) ==
  SetProp(data, k, Envelope(v, FsCreatedAt(data, k, t), toISOString(t)))

\* the read that forgets the missing entry: entry?.value
FsReadValue_NoGuard(data, k) == GetProp(GetProp(data, k), <<"value">>)

FsReadValue(data, k) ==
  LET entry == GetProp(data, k) IN
  IF Falsy(entry) THEN Null ELSE GetProp(entry, <<"value">>)

FsEntryTime(data, k) == getTime(GetProp(GetProp(data, k), <<"created_at">>))

FsKeysOf(data) ==
  LET t == [k \in SeqRange(ObjectKeys(data)) |-> FsEntryTime(data, k)]
  IN StableSort(ObjectKeys(data), t)

\* the entries cleanup deletes: createdAt < cutoffDate
FsExpired(data, days, t) ==
  {k \in SeqRange(ObjectKeys(data)) : FsEntryTime(data, k) < t - days}

FsCleanupData(data, days, t) ==
  LET keep(p) == p[1] \notin FsExpired(data, days, t) IN
  Obj(SelectSeq(data[2], keep))

\* ------------------------------------------------------------------------
\* createRedisStore: every key is prefixed; a value is the text of an
\* envelope; an entry is <<key, text, expireAt>> with expireAt -1 for none
\* ------------------------------------------------------------------------
keyPrefix == <<"mcp:">>
formatKey(k) == keyPrefix \o k
unprefix(key) == SubSeq(key, Len(keyPrefix) + 1, Len(key))

RECURSIVE RedisIndex(_, _, _)
RedisIndex(db, key, i) ==
  IF i > Len(db) THEN 0
  ELSE IF db[i][1] = key THEN i
  ELSE RedisIndex(db, key, i + 1)

\* GET: the text, or null
RedisGet(db, key) ==
  LET i == RedisIndex(db, key, 1) IN IF i = 0 THEN Null ELSE Str(db[i][2])

\* SET and SETEX
RedisSet(db, key, text, expireAt) ==
  LET i == RedisIndex(db, key, 1) IN
  IF i = 0 THEN Append(db, <<key, text, expireAt>>)
  ELSE [db EXCEPT ![i] = <<key, text, expireAt>>]

\* DEL
RedisDel(db, key) ==
  LET other(e) == e[1] # key IN SelectSeq(db, other)

\* the keys that expire when the clock reaches t
RedisExpire(db, t) ==
  LET live(e) == e[3] = -1 \/ t < e[3] IN SelectSeq(db, live)

RedisWriteDb(db, k, v, t) ==
  LET serializedValue == JSONstringify(Envelope(v, toISOString(t), toISOString(t)))
  IN IF ttl # 0 THEN RedisSet(db, formatKey(k), serializedValue, t + ttl)
     ELSE RedisSet(db, formatKey(k), serializedValue, -1)

RedisReadValue(db, k) ==
  Only({IF value = Null THEN Null
        ELSE Only({IF ~(r[1] /\ r[3] = <<>>) THEN ParseFailure(k)
                   ELSE IF GetProp(r[2], <<"value">>) # Undef
                        THEN GetProp(r[2], <<"value">>) ELSE r[2] :
                     r \in {ParseValue(value[2])}}) :
          value \in {RedisGet(db, formatKey(k))}})

\* parsed.created_at || epoch; a value that does not parse counts as epoch
RedisEntryTime(db, key) ==
  Only({IF Falsy(value) THEN 0
        ELSE Only({IF ~(r[1] /\ r[3] = <<>>) \/ Falsy(GetProp(r[2], <<"created_at">>))
                   THEN 0
                   ELSE getTime(GetProp(r[2], <<"created_at">>)) :
                     r \in {ParseValue(value[2])}}) :
          value \in {RedisGet(db, key)}})

RedisKeySet(db) == {db[i][1] : i \in 1..Len(db)}

\* KEYS returns the keys in no particular order, the sort is stable
RedisKeysOf(db) ==
  {[i \in 1..Len(s) |-> unprefix(s[i])] :
     s \in Orderings({<<key, RedisEntryTime(db, key)>> : key \in RedisKeySet(db)})}

\* the keys cleanup deletes: the value parses and createdAt < cutoffDate
RedisExpired(db, days, t) ==
  {key \in RedisKeySet(db) :
     \E value \in {RedisGet(db, key)} :
       /\ ~Falsy(value)
       /\ CanParse(value[2])
       /\ RedisEntryTime(db, key) < t - days}

RedisCleanupDb(db, days, t) ==
  LET keep(e) == e[1] \notin RedisExpired(db, days, t) IN SelectSeq(db, keep)

\* ------------------------------------------------------------------------
\* The SQL tables of createPostgresStore and createSqliteStore: a row is
\* [key, value, created_at, updated_at]
\* ------------------------------------------------------------------------
Row(k, text, c, u) == [key |-> k, value |-> text, created_at |-> c, updated_at |-> u]

RECURSIVE RowIndex(_, _, _)
RowIndex(tbl, k, i) ==
  IF i > Len(tbl) THEN 0
  ELSE IF tbl[i].key = k THEN i
  ELSE RowIndex(tbl, k, i + 1)

SqlDelete(tbl, k) == LET other(r) == r.key # k IN SelectSeq(tbl, other)

SqlKeySet(tbl) == {tbl[i].key : i \in 1..Len(tbl)}

SqlCreatedAt(tbl, k) == tbl[RowIndex(tbl, k, 1)].created_at

\* SELECT key ... ORDER BY created_at: rows with equal created_at come in
\* whatever order the backend chooses
SqlKeysOf(tbl) == Orderings({<<k, SqlCreatedAt(tbl, k)>> : k \in SqlKeySet(tbl)})

\* the DELETE with an inclusive cutoff: created_at <= now - days
SqlExpired_Inclusive(tbl, days, t) ==
  {k \in SqlKeySet(tbl) : SqlCreatedAt(tbl, k) <= t - days}

\* DELETE ... WHERE created_at < now - days
SqlExpired(tbl, days, t) == {k \in SqlKeySet(tbl) : SqlCreatedAt(tbl, k) < t - days}

SqlCleanup(tbl, days, t) ==
  LET keep(r) == r.key \notin SqlExpired(tbl, days, t) IN SelectSeq(tbl, keep)

\* a JSONB column holds the parsed document
ToJsonb(text) == JSONstringify(JSONparse(text))

\* INSERT ... ON CONFLICT (key) DO UPDATE SET value, updated_at
PgUpsert(tbl, k, text, t) ==
  LET i == RowIndex(tbl, k, 1) IN
  IF i = 0 THEN Append(tbl, Row(k, ToJsonb(text), t, t))
  ELSE [tbl EXCEPT ![i] = Row(k, ToJsonb(text), tbl[i].created_at, t)]

\* the driver hands a JSONB column over already parsed
PgDriverValue(row) == JSONparse(row.value)

PgReadValue(tbl, k) ==
  LET i == RowIndex(tbl, k, 1) IN
  IF i = 0 THEN Null
  ELSE LET value == PgDriverValue(tbl[i]) IN
       IF TypeofObject(value) THEN value
       ELSE IF CanParse(ToStringPrim(value)) THEN JSONparse(ToStringPrim(value))
       ELSE ParseFailure(k)

\* INSERT OR REPLACE: a conflicting row is deleted and a new one inserted,
\* whose created_at takes the column default
SqliteInsertOrReplace(tbl, k, text, t) ==
  Append(SqlDelete(tbl, k), Row(k, text, t, t))

SqliteReadValue(tbl, k) ==
  LET i == RowIndex(tbl, k, 1) IN
  IF i = 0 THEN Null
  ELSE IF CanParse(tbl[i].value) THEN JSONparse(tbl[i].value)
  ELSE ParseFailure(k)

\* ------------------------------------------------------------------------
\* What a store instance holds, whichever adapter it is
\* ------------------------------------------------------------------------
FsData == readStoreData(fsFile)[2]

KeyExists(k) ==
  CASE kind = "fs" -> \E data \in {FsData} : HasProp(data, k)
    [] kind = "redis" -> RedisIndex(redisDb, formatKey(k), 1) # 0
    [] kind = "postgres" -> RowIndex(pgTable, k, 1) # 0
    [] OTHER -> RowIndex(sqliteTable, k, 1) # 0

CreatedAt(k) ==
  CASE kind = "fs" -> Only({FsEntryTime(data, k) : data \in {FsData}})
    [] kind = "redis" -> RedisEntryTime(redisDb, formatKey(k))
    [] kind = "postgres" -> SqlCreatedAt(pgTable, k)
    [] OTHER -> SqlCreatedAt(sqliteTable, k)

UpdatedAt(k) ==
  CASE kind = "fs" ->
         Only({getTime(GetProp(GetProp(data, k), <<"updated_at">>)) : data \in {FsData}})
    [] kind = "redis" ->
         getTime(GetProp(JSONparse(RedisGet(redisDb, formatKey(k))[2]), <<"updated_at">>))
    [] kind = "postgres" -> pgTable[RowIndex(pgTable, k, 1)].updated_at
    [] OTHER -> sqliteTable[RowIndex(sqliteTable, k, 1)].updated_at

ExistingKeys ==
  CASE kind = "fs" -> Only({{k \in StoreKeys : HasProp(data, k)} : data \in {FsData}})
    [] OTHER -> {k \in StoreKeys : KeyExists(k)}

\* history: a key is born when a call makes it exist
BornNext ==
  \E before \in {ExistingKeys}, after \in {ExistingKeys'} :
    born' = [k \in StoreKeys |->
               IF k \in after THEN (IF k \in before THEN born[k] ELSE now') ELSE -1]

StoreInit ==
  /\ payload \in Payloads
  /\ kind \in Kinds
  /\ ttl \in (IF kind = "redis" THEN TtlOptions ELSE {0})
  /\ now = 0
  /\ ticks = 0
  /\ writes = 0
  /\ fsFile = NoFile
  /\ redisDb = <<>>
  /\ pgTable = <<>>
  /\ sqliteTable = <<>>
  /\ born = [k \in StoreKeys |-> -1]
  /\ res = NoCall

\* no Client Core call was made yet
NoRet == [op |-> "none", arg |-> Undef, out |-> Undef, fx |-> <<>>, d |-> Undef]

ClientStart(m) ==
  /\ mode = m
  /\ fsStore = Obj(<<>>)
  /\ root = NoFile
  /\ uuids = 0
  /\ delegates = {}
  /\ sessions = {}
  /\ ret = NoRet

\* no Server Core function was called and no request was handled yet
NoInvocation == [op |-> "none", args |-> <<>>, out |-> Undef, reads |-> <<>>]
NoExchange ==
  [adapter |-> "none", req |-> Undef, asked |-> <<>>, status |-> 0,
   headers |-> Obj(<<>>), body |-> Undef, nexts |-> 0, auth |-> Undef,
   failure |-> Undef]

\* no store adapter was created yet
NoSettled == [op |-> "none", failAt |-> 0, value |-> Undef]
NoBackend ==
  [adapter |-> "none", promise |-> "none", waiting |-> {}, issued |-> <<>>,
   closed |-> FALSE, out |-> NoSettled]

ServerStart ==
  /\ invoked = NoInvocation
  /\ exchange = NoExchange
  /\ backend = NoBackend
  /\ suspended = {}

\* time passes between two calls (the result of the last call is consumed
\* by then); Redis drops the keys whose ttl ran out
Tick(d) ==
  /\ ticks < MaxTicks
  /\ now' = now + d
  /\ ticks' = ticks + 1
  /\ redisDb' = RedisExpire(redisDb, now + d)
  /\ res' = NoCall
  /\ UNCHANGED <<payload, kind, ttl, writes, fsFile, pgTable, sqliteTable>>
  /\ BornNext
  /\ UNCHANGED <<clientVars, serverVars>>

\* ---- fs ----
FsWrite(k, v) ==
  /\ kind = "fs"
  /\ writes < MaxWrites
  /\ \E r \in {readStoreData(fsFile)} :
       fsFile' = writeStoreData(FsWriteData(r[2], k, v, now))
  /\ writes' = writes + 1
  /\ res' = FsCall("write", k, v, Undef)
  /\ UNCHANGED <<payload, kind, ttl, now, ticks, redisDb, pgTable, sqliteTable>>
  /\ BornNext
  /\ UNCHANGED <<clientVars, serverVars>>

FsRead(k) ==
  /\ kind = "fs"
  /\ \E r \in {readStoreData(fsFile)} :
       /\ fsFile' = r[1]
       /\ res' = FsCall("read", k, Undef, FsReadValue(r[2], k))
  /\ UNCHANGED <<payload, kind, ttl, now, ticks, writes, redisDb, pgTable, sqliteTable>>
  /\ BornNext
  /\ UNCHANGED <<clientVars, serverVars>>

FsDelete(k) ==
  /\ kind = "fs"
  /\ \E r \in {readStoreData(fsFile)} :
       IF HasProp(r[2], k)
       THEN /\ fsFile' = writeStoreData(DelProp(r[2], k))
            /\ res' = FsCall("delete", k, Undef, Bool(TRUE))
       ELSE /\ fsFile' = r[1]
            /\ res' = FsCall("delete", k, Undef, Bool(FALSE))
  /\ UNCHANGED <<payload, kind, ttl, now, ticks, writes, redisDb, pgTable, sqliteTable>>
  /\ BornNext
  /\ UNCHANGED <<clientVars, serverVars>>

FsExists(k) ==
  /\ kind = "fs"
  /\ \E r \in {readStoreData(fsFile)} :
       /\ fsFile' = r[1]
       /\ res' = FsCall("exists", k, Undef, Bool(HasProp(r[2], k)))
  /\ UNCHANGED <<payload, kind, ttl, now, ticks, writes, redisDb, pgTable, sqliteTable>>
  /\ BornNext
  /\ UNCHANGED <<clientVars, serverVars>>

FsKeys ==
  /\ kind = "fs"
  /\ \E r \in {readStoreData(fsFile)} :
       /\ fsFile' = r[1]
       /\ res' = FsCall("keys", <<>>, Undef, List(FsKeysOf(r[2])))
  /\ UNCHANGED <<payload, kind, ttl, now, ticks, writes, redisDb, pgTable, sqliteTable>>
  /\ BornNext
  /\ UNCHANGED <<clientVars, serverVars>>

FsCleanup(days) ==
  /\ kind = "fs"
  /\ \E r \in {readStoreData(fsFile)} :
       \E deleteCount \in {Cardinality(FsExpired(r[2], days, now))} :
         /\ fsFile' = IF deleteCount > 0
                      THEN writeStoreData(FsCleanupData(r[2], days, now))
                      ELSE r[1]
         /\ res' = FsCall("cleanup", <<>>, Num(days), Num(deleteCount))
  /\ UNCHANGED <<payload, kind, ttl, now, ticks, writes, redisDb, pgTable, sqliteTable>>
  /\ BornNext
  /\ UNCHANGED <<clientVars, serverVars>>

\* ---- Redis ----
RedisWrite(k, v) ==
  /\ kind = "redis"
  /\ writes < MaxWrites
  /\ redisDb' = RedisWriteDb(redisDb, k, v, now)
  /\ writes' = writes + 1
  /\ res' = Call("write", k, v, Undef)
  /\ UNCHANGED <<payload, kind, ttl, now, ticks, fsFile, pgTable, sqliteTable>>
  /\ BornNext
  /\ UNCHANGED <<clientVars, serverVars>>

RedisRead(k) ==
  /\ kind = "redis"
  /\ res' = Call("read", k, Undef, RedisReadValue(redisDb, k))
  /\ UNCHANGED <<payload, kind, ttl, now, ticks, writes, fsFile, redisDb, pgTable, sqliteTable>>
  /\ BornNext
  /\ UNCHANGED <<clientVars, serverVars>>

RedisDelete(k) ==
  /\ kind = "redis"
  /\ redisDb' = RedisDel(redisDb, formatKey(k))
  /\ res' = Call("delete", k, Undef, Bool(RedisIndex(redisDb, formatKey(k), 1) # 0))
  /\ UNCHANGED <<payload, kind, ttl, now, ticks, writes, fsFile, pgTable, sqliteTable>>
  /\ BornNext
  /\ UNCHANGED <<clientVars, serverVars>>

RedisExists(k) ==
  /\ kind = "redis"
  /\ res' = Call("exists", k, Undef, Bool(RedisIndex(redisDb, formatKey(k), 1) # 0))
  /\ UNCHANGED <<payload, kind, ttl, now, ticks, writes, fsFile, redisDb, pgTable, sqliteTable>>
  /\ BornNext
  /\ UNCHANGED <<clientVars, serverVars>>

RedisKeys ==
  /\ kind = "redis"
  /\ \E s \in RedisKeysOf(redisDb) : res' = Call("keys", <<>>, Undef, List(s))
  /\ UNCHANGED <<payload, kind, ttl, now, ticks, writes, fsFile, redisDb, pgTable, sqliteTable>>
  /\ BornNext
  /\ UNCHANGED <<clientVars, serverVars>>

RedisCleanup(days) ==
  /\ kind = "redis"
  /\ redisDb' = RedisCleanupDb(redisDb, days, now)
  /\ res' = Call("cleanup", <<>>, Num(days),
                 Num(Cardinality(RedisExpired(redisDb, days, now))))
  /\ UNCHANGED <<payload, kind, ttl, now, ticks, writes, fsFile, pgTable, sqliteTable>>
  /\ BornNext
  /\ UNCHANGED <<clientVars, serverVars>>

\* ---- PostgreSQL ----
PgWrite(k, v) ==
  /\ kind = "postgres"
  /\ writes < MaxWrites
  /\ pgTable' = PgUpsert(pgTable, k, JSONstringify(v), now)
  /\ writes' = writes + 1
  /\ res' = Call("write", k, v, Undef)
  /\ UNCHANGED <<payload, kind, ttl, now, ticks, fsFile, redisDb, sqliteTable>>
  /\ BornNext
  /\ UNCHANGED <<clientVars, serverVars>>

PgRead(k) ==
  /\ kind = "postgres"
  /\ res' = Call("read", k, Undef, PgReadValue(pgTable, k))
  /\ UNCHANGED <<payload, kind, ttl, now, ticks, writes, fsFile, redisDb, pgTable, sqliteTable>>
  /\ BornNext
  /\ UNCHANGED <<clientVars, serverVars>>

PgDelete(k) ==
  /\ kind = "postgres"
  /\ pgTable' = SqlDelete(pgTable, k)
  /\ res' = Call("delete", k, Undef, Bool(RowIndex(pgTable, k, 1) # 0))
  /\ UNCHANGED <<payload, kind, ttl, now, ticks, writes, fsFile, redisDb, sqliteTable>>
  /\ BornNext
  /\ UNCHANGED <<clientVars, serverVars>>

PgExists(k) ==
  /\ kind = "postgres"
  /\ res' = Call("exists", k, Undef, Bool(RowIndex(pgTable, k, 1) # 0))
  /\ UNCHANGED <<payload, kind, ttl, now, ticks, writes, fsFile, redisDb, pgTable, sqliteTable>>
  /\ BornNext
  /\ UNCHANGED <<clientVars, serverVars>>

PgKeys ==
  /\ kind = "postgres"
  /\ \E s \in SqlKeysOf(pgTable) : res' = Call("keys", <<>>, Undef, List(s))
  /\ UNCHANGED <<payload, kind, ttl, now, ticks, writes, fsFile, redisDb, pgTable, sqliteTable>>
  /\ BornNext
  /\ UNCHANGED <<clientVars, serverVars>>

PgCleanup(days) ==
  /\ kind = "postgres"
  /\ pgTable' = SqlCleanup(pgTable, days, now)
  /\ res' = Call("cleanup", <<>>, Num(days),
                 Num(Cardinality(SqlExpired(pgTable, days, now))))
  /\ UNCHANGED <<payload, kind, ttl, now, ticks, writes, fsFile, redisDb, sqliteTable>>
  /\ BornNext
  /\ UNCHANGED <<clientVars, serverVars>>

\* ---- SQLite ----
SqliteWrite(k, v) ==
  /\ kind = "sqlite"
  /\ writes < MaxWrites
  /\ sqliteTable' = SqliteInsertOrReplace(sqliteTable, k, JSONstringify(v), now)
  /\ writes' = writes + 1
  /\ res' = Call("write", k, v, Undef)
  /\ UNCHANGED <<payload, kind, ttl, now, ticks, fsFile, redisDb, pgTable>>
  /\ BornNext
  /\ UNCHANGED <<clientVars, serverVars>>

SqliteRead(k) ==
  /\ kind = "sqlite"
  /\ res' = Call("read", k, Undef, SqliteReadValue(sqliteTable, k))
  /\ UNCHANGED <<payload, kind, ttl, now, ticks, writes, fsFile, redisDb, pgTable, sqliteTable>>
  /\ BornNext
  /\ UNCHANGED <<clientVars, serverVars>>

SqliteDelete(k) ==
  /\ kind = "sqlite"
  /\ sqliteTable' = SqlDelete(sqliteTable, k)
  /\ res' = Call("delete", k, Undef, Bool(RowIndex(sqliteTable, k, 1) # 0))
  /\ UNCHANGED <<payload, kind, ttl, now, ticks, writes, fsFile, redisDb, pgTable>>
  /\ BornNext
  /\ UNCHANGED <<clientVars, serverVars>>

SqliteExists(k) ==
  /\ kind = "sqlite"
  /\ res' = Call("exists", k, Undef, Bool(RowIndex(sqliteTable, k, 1) # 0))
  /\ UNCHANGED <<payload, kind, ttl, now, ticks, writes, fsFile, redisDb, pgTable, sqliteTable>>
  /\ BornNext
  /\ UNCHANGED <<clientVars, serverVars>>

SqliteKeys ==
  /\ kind = "sqlite"
  /\ \E s \in SqlKeysOf(sqliteTable) : res' = Call("keys", <<>>, Undef, List(s))
  /\ UNCHANGED <<payload, kind, ttl, now, ticks, writes, fsFile, redisDb, pgTable, sqliteTable>>
  /\ BornNext
  /\ UNCHANGED <<clientVars, serverVars>>

SqliteCleanup(days) ==
  /\ kind = "sqlite"
  /\ sqliteTable' = SqlCleanup(sqliteTable, days, now)
  /\ res' = Call("cleanup", <<>>, Num(days),
                 Num(Cardinality(SqlExpired(sqliteTable, days, now))))
  /\ UNCHANGED <<payload, kind, ttl, now, ticks, writes, fsFile, redisDb, pgTable>>
  /\ BornNext
  /\ UNCHANGED <<clientVars, serverVars>>

StoreNext ==
  \/ \E d \in TickSteps : Tick(d)
  \/ \E k \in StoreKeys, v \in payload : FsWrite(k, v)
  \/ \E k \in StoreKeys : FsRead(k)
  \/ \E k \in StoreKeys : FsDelete(k)
  \/ \E k \in StoreKeys : FsExists(k)
  \/ FsKeys
  \/ \E d \in CleanupDays : FsCleanup(d)
  \/ \E k \in StoreKeys, v \in payload : RedisWrite(k, v)
  \/ \E k \in StoreKeys : RedisRead(k)
  \/ \E k \in StoreKeys : RedisDelete(k)
  \/ \E k \in StoreKeys : RedisExists(k)
  \/ RedisKeys
  \/ \E d \in CleanupDays : RedisCleanup(d)
  \/ \E k \in StoreKeys, v \in payload : PgWrite(k, v)
  \/ \E k \in StoreKeys : PgRead(k)
  \/ \E k \in StoreKeys : PgDelete(k)
  \/ \E k \in StoreKeys : PgExists(k)
  \/ PgKeys
  \/ \E d \in CleanupDays : PgCleanup(d)
  \/ \E k \in StoreKeys, v \in payload : SqliteWrite(k, v)
  \/ \E k \in StoreKeys : SqliteRead(k)
  \/ \E k \in StoreKeys : SqliteDelete(k)
  \/ \E k \in StoreKeys : SqliteExists(k)
  \/ SqliteKeys
  \/ \E d \in CleanupDays : SqliteCleanup(d)

\* the file at filePath is removed, or overwritten with text that is no
\* JSON, by something other than this store (the result of the last call
\* is consumed by then)
FileDamaged(file) ==
  /\ kind = "fs"
  /\ fsFile # file
  /\ fsFile' = file
  /\ res' = NoCall
  /\ UNCHANGED <<payload, kind, ttl, now, ticks, writes, redisDb, pgTable, sqliteTable>>
  /\ BornNext
  /\ UNCHANGED <<clientVars, serverVars>>

\* texts that JSON.parse rejects: an empty file, a truncated document, prose
CorruptTexts == {<<>>, <<"{", Q, "k1", Q, ":">>, <<"not json">>}

FileNext ==
  \/ \E d \in TickSteps : Tick(d)
  \/ \E k \in StoreKeys, v \in payload : FsWrite(k, v)
  \/ \E k \in StoreKeys : FsRead(k)
  \/ \E k \in StoreKeys : FsDelete(k)
  \/ \E k \in StoreKeys : FsExists(k)
  \/ FsKeys
  \/ \E d \in CleanupDays : FsCleanup(d)
  \/ \E file \in {NoFile} \cup {FileOf(t) : t \in CorruptTexts} : FileDamaged(file)

\* ---- fs: calls that are not awaited one after the other ----
\* write and delete are async functions with two awaits that touch the
\* file: readStoreData and writeStoreData.  Between the two another call of
\* the same process may run.
MaxSuspended == 2

Suspended(op, k, v, data) == [op |-> op, k |-> k, v |-> v, data |-> data]

\* write(k, v) up to its second await: the data is read and data[k] is set
FsWriteReads(k, v) ==
  /\ kind = "fs"
  /\ writes < MaxWrites
  /\ Cardinality(suspended) < MaxSuspended
  /\ \E r \in {readStoreData(fsFile)} :
       /\ fsFile' = r[1]
       /\ suspended' = suspended \cup
            {Suspended("write", k, v, FsWriteData(r[2], k, v, now))}
  /\ writes' = writes + 1
  /\ UNCHANGED <<payload, kind, ttl, now, ticks, redisDb, pgTable, sqliteTable, res>>
  /\ BornNext
  /\ UNCHANGED <<clientVars, invoked, exchange, backend>>

\* delete(k) up to its second await; a key that is not in the data ends the
\* call at once
FsDeleteReads(k) ==
  /\ kind = "fs"
  /\ Cardinality(suspended) < MaxSuspended
  /\ \E r \in {readStoreData(fsFile)} :
       /\ fsFile' = r[1]
       /\ IF HasProp(r[2], k)
          THEN /\ suspended' = suspended \cup
                    {Suspended("delete", k, Undef, DelProp(r[2], k))}
               /\ UNCHANGED res
          ELSE /\ UNCHANGED suspended
               /\ res' = FsCall("delete", k, Undef, Bool(FALSE))
  /\ UNCHANGED <<payload, kind, ttl, now, ticks, writes, redisDb, pgTable, sqliteTable>>
  /\ BornNext
  /\ UNCHANGED <<clientVars, invoked, exchange, backend>>

\* a suspended call goes on: writeStoreData(data), and the call returns
FsWritesData(p) ==
  /\ kind = "fs"
  /\ p \in suspended
  /\ fsFile' = writeStoreData(p.data)
  /\ suspended' = suspended \ {p}
  /\ res' = FsCall(p.op, p.k, p.v, IF p.op = "write" THEN Undef ELSE Bool(TRUE))
  /\ UNCHANGED <<payload, kind, ttl, now, ticks, writes, redisDb, pgTable, sqliteTable>>
  /\ BornNext
  /\ UNCHANGED <<clientVars, invoked, exchange, backend>>

OverlapNext ==
  \/ \E k \in StoreKeys, v \in payload : FsWriteReads(k, v)
  \/ \E k \in StoreKeys : FsDeleteReads(k)
  \/ \E p \in suspended : FsWritesData(p)
  \/ \E k \in StoreKeys : FsRead(k)

\* a fresh fs store in a process that does not await every call before it
\* makes the next
InitOverlap == StoreInit /\ kind = "fs" /\ ClientStart("legacy") /\ ServerStart

SpecOverlap == InitOverlap /\ [][OverlapNext]_vars

\* a fresh fs store
InitFile == StoreInit /\ kind = "fs" /\ ClientStart("legacy") /\ ServerStart

SpecFile == InitFile /\ [][FileNext]_vars

\* a fresh store of one of the four kinds; the Client Core is not used
InitStore == StoreInit /\ ClientStart("legacy") /\ ServerStart

SpecStore == InitStore /\ [][StoreNext]_vars

\* ------------------------------------------------------------------------
\* Claims about the store adapters
\* ------------------------------------------------------------------------
IsWriteStep == res'.op = "write" /\ writes' = writes + 1
IsCleanupStep == res'.op = "cleanup"

\* C1: write(k, v) followed by read(k) on the same store instance returns a
\* value deep-equal to v, for every adapter and every JSON value v.
C1_StoreRoundTrip ==
  [][(res.op = "write" /\ res'.op = "read" /\ res'.k = res.k)
       => res'.out = res.v]_storeVars

\* C2: read(k) for a key that does not exist (never written, or deleted)
\* returns null and does not raise, whatever was done to other keys.
C2_MissReturnsAbsent ==
  (res.op = "read" /\ res.k \notin ExistingKeys) => res.out = Null

C2_Witness ==
  /\ res.op = "read"
  /\ res.k \notin ExistingKeys
  /\ ExistingKeys # {}
  /\ writes >= 2

\* C3: a write to a key that already exists keeps the created_at recorded by
\* the first write and sets updated_at to the time of this write.
C3_UpdatePreservesCreation ==
  [][\A k \in ExistingKeys :
       (IsWriteStep /\ res'.k = k)
         => /\ CreatedAt(k)' = CreatedAt(k)
            /\ UpdatedAt(k)' = now
            /\ UpdatedAt(k)' >= UpdatedAt(k)]_storeVars

\* C4 as claimed: cleanup(30) removes exactly the entries whose age is 30
\* days or more, and returns how many it removed.
C4_CleanupRemovesAtThirtyDays ==
  [][IsCleanupStep
       => /\ ExistingKeys' = {k \in ExistingKeys : now - CreatedAt(k) < res'.v[2]}
          /\ res'.out = Num(Cardinality(ExistingKeys \ ExistingKeys'))]_storeVars

\* C4 as amended: cleanup(30) removes exactly the entries whose created_at is
\* earlier than now - 30 days (an entry exactly 30 days old survives), and
\* returns how many it removed.
C4_CleanupRemovesOlderThanThirtyDays ==
  [][IsCleanupStep
       => /\ ExistingKeys' = {k \in ExistingKeys : now - CreatedAt(k) <= res'.v[2]}
          /\ res'.out = Num(Cardinality(ExistingKeys \ ExistingKeys'))]_storeVars

C4_Witness ==
  /\ res.op = "cleanup"
  /\ res.v = Num(30)
  /\ res.out = Num(1)
  /\ \E k \in ExistingKeys : now - CreatedAt(k) < 30

\* C5: keys() returns exactly the keys that exist, each once, ordered by the
\* time of each key's first write; an overwrite does not move a key.
C5_KeysByFirstWrite ==
  res.op = "keys"
    => /\ Len(res.out[2]) = Cardinality(ExistingKeys)
       /\ SeqRange(res.out[2]) = ExistingKeys
       /\ \A i, j \in 1..Len(res.out[2]) :
            i < j => born[res.out[2][i]] <= born[res.out[2][j]]

\* ------------------------------------------------------------------------
\* Client Core: values and inputs
\* ------------------------------------------------------------------------
MaxSessions == 1
MaxDelegates == 1

CODE_VERIFIER_PREFIX == <<"pkce_verifier_">>
STATE_PREFIX == <<"state_">>
SESSION_PREFIX == <<"session_">>

\* what an async function returns: a promise for v
Promise(v) == <<"promise", v>>

\* `${v}` in a template literal
TemplateString(v) ==
  CASE Tag(v) = "str" -> v[2]
    [] Tag(v) = "undef" -> <<"undefined">>
    [] Tag(v) = "promise" -> <<"[object Promise]">>
    [] OTHER -> <<"[object Object]">>

Prop(name, v) == << <<name>>, v >>
Field(o, name) == GetProp(o, <<name>>)

\* { ...v }: the own properties of an object; a promise has none
SpreadOf(v) == IF Tag(v) = "obj" THEN v ELSE Obj(<<>>)

RECURSIVE Assign(_, _, _)
Assign(o, ps, i) ==
  IF i > Len(ps) THEN o
  ELSE Assign(SetProp(o, ps[i][1], ps[i][2]), ps, i + 1)

\* { ...a, ...b }
Merged(a, b) == Assign(SpreadOf(a), SpreadOf(b)[2], 1)

\* the n-th value randomUUID produces: every value is new
randomUUID(n) == Str(<<"uuid-">> \o DigitsOf(n))

AllStates == {randomUUID(2 * i - 1) : i \in 1..MaxSessions}
AllSessionIds == {randomUUID(2 * i) : i \in 1..MaxSessions}

StateKey(state) == STATE_PREFIX \o TemplateString(state)
SessionKey(sessionId) == SESSION_PREFIX \o TemplateString(sessionId)
VerifierKey(state) == CODE_VERIFIER_PREFIX \o TemplateString(state)

\* new URL(v) succeeds
IsURL(v) == Tag(v) = "str" /\ Len(v[2]) > 1 /\ v[2][1] \in {"https://", "http://"}

\* what the application passes in, and what the authorization server answers
KnownCredentials ==
  { <<Str(<<"c1">>), Str(<<"s1">>)>>, <<Str(<<"c3">>), Str(<<"s3">>)>> }
McpEndpoints == {Str(<<"https://", "x/mcp">>)}
RedirectUrl == Str(<<"https://", "y/cb">>)
RegistrationResponses ==
  { Obj(<<Prop("client_id", Str(<<"c2">>)), Prop("client_secret", Str(<<"s2">>))>>) }
TokenResponses ==
  { Obj(<<Prop("access_token", Str(<<"t1">>)), Prop("refresh_token", Str(<<"r1">>))>>) }
Verifiers == {Str(<<"v1">>), Str(<<"v2">>)}
AuthCodes == {Str(<<"code1">>)}
\* a state and a session id that no constructor ever produced
ForgedState == Str(<<"forged">>)
ForgedSessionId == Str(<<"nobody">>)

\* ------------------------------------------------------------------------
\* The store the Client Core is handed.  A world is the store's state during
\* one call, with the effects of the call so far.
\* ------------------------------------------------------------------------
World == [mem |-> fsStore, file |-> root, table |-> sqliteTable, fx |-> <<>>]

Log(w, e) == [w EXCEPT !.fx = Append(w.fx, e)]

\* the legacy file store: fsStore[k] = v, then the whole mapping is written
LegacyWrite(w, k, v) ==
  Only({[w EXCEPT !.mem = mem, !.file = FileOf(JSONstringify(mem))] :
          mem \in {SetProp(w.mem, k, v)}})

\* the legacy file store: <<world, value>>; a missing file is created as {}
\* (the file is only ever written by this store, so it always parses)
LegacyRead(w, k) ==
  Only({<<[w EXCEPT !.file = file], GetProp(file, k)>> :
          file \in {IF w.file = NoFile THEN EmptyDoc ELSE w.file}})

\* store.write(k, v)
storeWrite(w, k, v) ==
  Log(IF mode = "legacy" THEN LegacyWrite(w, k, v)
      ELSE [w EXCEPT !.table = SqliteInsertOrReplace(w.table, k, JSONstringify(v), now)],
      <<"write", k>>)

\* store.read(k): <<world, value>>; an adapter's read is an async function
storeRead(w, k) ==
  Only({<<Log(r[1], <<"read", k>>), r[2]>> :
          r \in {IF mode = "legacy" THEN LegacyRead(w, k)
                 ELSE <<w, Promise(SqliteReadValue(w.table, k))>>}})

\* what the store holds under k, absent as undefined
Stored(k) ==
  IF mode = "legacy" THEN (IF root = NoFile THEN Undef ELSE GetProp(root, k))
  ELSE IF RowIndex(sqliteTable, k, 1) = 0 THEN Undef
  ELSE JSONparse(sqliteTable[RowIndex(sqliteTable, k, 1)].value)

StoredKeys ==
  IF mode = "legacy" THEN (IF root = NoFile THEN {} ELSE SeqRange(ObjectKeys(root)))
  ELSE SqlKeySet(sqliteTable)

\* ------------------------------------------------------------------------
\* Authorization delegates.  A delegate is the closure of an authProvider:
\* the phase it was built in and the state, sessionId and client it captured;
\* basis is history: the last write to the session record when it was built.
\* A hook returns [w, out, d]: the world, the value returned or the error
\* thrown, and the delegate afterwards.
\* ------------------------------------------------------------------------
Delegate(phase, state, sessionId, client, basis) ==
  [phase |-> phase, state |-> state, sessionId |-> sessionId, client |-> client,
   basis |-> basis]

HR(w, out, d) == [w |-> w, out |-> out, d |-> d]

\* the guard that lets the call through
unexpectedFunctionCall_Silent(name, phase, w, d) == HR(w, Undef, d)

unexpectedFunctionCall(name, phase, w, d) ==
  HR(w, Thrown("UnexpectedCall", <<name, phase>>), d)

ClientInformationOf(client) ==
  Obj(<<Prop("client_id", Field(client, "clientId")),
        Prop("client_secret", Field(client, "clientSecret"))>>)

\* ---- the delegate of createKnownCredentialsMcpClient ----
Known_clientInformation(w, d) == HR(w, ClientInformationOf(d.client), d)

Known_saveClientInformation(w, d, newInfo) ==
  unexpectedFunctionCall("saveClientInformation",
                         "initializing a known credentials client", w, d)

Known_tokens(w, d) == HR(w, Undef, d)

Known_saveTokens(w, d, t) ==
  unexpectedFunctionCall("saveTokens", "initializing a known credentials client", w, d)

Known_redirectToAuthorization(w, d) == HR(Log(w, <<"redirect">>), Undef, d)

\* the hook that keeps one verifier for all states
Known_saveCodeVerifier_Unkeyed(w, d, verifier) ==
  HR(storeWrite(w, CODE_VERIFIER_PREFIX, verifier), Undef, d)

Known_saveCodeVerifier(w, d, verifier) ==
  HR(storeWrite(w, VerifierKey(d.state), verifier), Undef, d)

Known_codeVerifier(w, d) ==
  unexpectedFunctionCall("codeVerifier", "initializing a known credentials client", w, d)

\* ---- the delegate of createDynamicallyRegisteredMcpClient ----
Dynamic_clientInformation(w, d) ==
  IF Falsy(Field(d.client, "clientId")) THEN HR(w, Undef, d)
  ELSE HR(w, ClientInformationOf(d.client), d)

\* the registration that is kept in memory only
Dynamic_saveClientInformation_MemoryOnly(w, d, newInfo) ==
  HR(w, Undef,
     [d EXCEPT !.client =
        Merged(d.client, Obj(<<Prop("clientId", Field(newInfo, "client_id")),
                               Prop("clientSecret", Field(newInfo, "client_secret"))>>))])

Dynamic_saveClientInformation(w, d, newInfo) ==
  \* client = { ...client, ...newClientInfo }; store.write(session key, client)
  Only({HR(storeWrite(w, SessionKey(d.sessionId), client), Undef,
           [d EXCEPT !.client = client]) :
          client \in {Merged(d.client,
                             Obj(<<Prop("clientId", Field(newInfo, "client_id")),
                                   Prop("clientSecret", Field(newInfo, "client_secret"))>>))}})

Dynamic_tokens(w, d) == HR(w, Undef, d)

Dynamic_saveTokens(w, d, t) ==
  unexpectedFunctionCall("saveTokens",
                         "initializing a dynamically registered client", w, d)

Dynamic_redirectToAuthorization(w, d) == HR(Log(w, <<"redirect">>), Undef, d)

Dynamic_saveCodeVerifier(w, d, verifier) ==
  HR(storeWrite(w, VerifierKey(d.state), verifier), Undef, d)

\* the hook that already looks the verifier up
Dynamic_codeVerifier_FromStore(w, d) ==
  Only({HR(r[1], r[2], d) : r \in {storeRead(w, VerifierKey(d.state))}})

Dynamic_codeVerifier(w, d) ==
  unexpectedFunctionCall("codeVerifier",
                         "initializing a dynamically registered client", w, d)

\* ---- the delegate of getClientBySessionId ----
\* the hook that reads the fields of the registration response
Existing_clientInformation_SnakeCase(w, d) ==
  HR(w, Obj(<<Prop("client_id", Field(d.client, "client_id")),
              Prop("client_secret", Field(d.client, "client_secret"))>>), d)

Existing_clientInformation(w, d) == HR(w, ClientInformationOf(d.client), d)

Existing_saveClientInformation(w, d, newInfo) ==
  HR(storeWrite(w, SessionKey(d.sessionId), Merged(d.client, newInfo)), Undef, d)

Existing_tokens(w, d) ==
  IF Falsy(Field(d.client, "accessToken")) THEN HR(w, Undef, d)
  ELSE HR(w, Obj(<<Prop("access_token", Field(d.client, "accessToken")),
                   Prop("token_type", Str(<<"Bearer">>))>>), d)

\* the hook that persists the token pair alone
Existing_saveTokens_TokensOnly(w, d, t) ==
  HR(storeWrite(w, SessionKey(d.sessionId),
                Obj(<<Prop("accessToken", Field(t, "access_token")),
                      Prop("refreshToken", Field(t, "refresh_token"))>>)),
     Undef, d)

Existing_saveTokens(w, d, t) ==
  HR(storeWrite(w, SessionKey(d.sessionId),
                Merged(d.client,
                       Obj(<<Prop("accessToken", Field(t, "access_token")),
                             Prop("refreshToken", Field(t, "refresh_token"))>>))),
     Undef, d)

Existing_redirectToAuthorization(w, d) ==
  unexpectedFunctionCall("redirectToAuthorization", "getting an existing client", w, d)

Existing_saveCodeVerifier(w, d, verifier) ==
  unexpectedFunctionCall("saveCodeVerifier", "getting an existing client", w, d)

\* the hook that returns whatever the store holds
Existing_codeVerifier_NoMissCheck(w, d) ==
  IF Falsy(d.state) THEN HR(w, Thrown("StateRequired", Undef), d)
  ELSE Only({HR(r[1], r[2], d) : r \in {storeRead(w, VerifierKey(d.state))}})

Existing_codeVerifier(w, d) ==
  IF Falsy(d.state) THEN HR(w, Thrown("StateRequired", Undef), d)
  ELSE Only({IF Falsy(r[2]) THEN HR(r[1], Thrown("NoCodeVerifier", d.state), d)
             ELSE HR(r[1], r[2], d) :
               r \in {storeRead(w, VerifierKey(d.state))}})

\* ------------------------------------------------------------------------
\* Client Core: the exported functions
\* ------------------------------------------------------------------------
\* createReturnValue: [w, out, d, ok]; new URL throws on what is not a URL
createReturnValue(w, client, authProvider, sessionId) ==
  IF ~IsURL(Field(client, "mcpEndpoint"))
  THEN [w |-> w, out |-> Thrown("TypeError", Field(client, "mcpEndpoint")),
        d |-> authProvider, ok |-> FALSE]
  ELSE [w |-> Log(w, <<"transport">>), out |-> Obj(<<Prop("sessionId", sessionId)>>),
        d |-> authProvider, ok |-> TRUE]

\* history: the last write to the record of session sessionId
LastWrite(sessionId) ==
  IF \E s \in sessions : s.sessionId = sessionId
  THEN (CHOOSE s \in sessions : s.sessionId = sessionId).last
  ELSE <<"none">>

Noted(S, sessionId, last) ==
  {IF s.sessionId = sessionId THEN [s EXCEPT !.last = last] ELSE s : s \in S}

NotedVerifier(S, state, verifier) ==
  {IF s.state = state THEN [s EXCEPT !.verifier = verifier] ELSE s : s \in S}

\* getClientBySessionId: [w, out, d, ok]
getClientBySessionId(w, sessionId, state) ==
  Only({IF Falsy(r[2])
        THEN [w |-> r[1], out |-> Thrown("SessionNotFound", sessionId),
              d |-> Undef, ok |-> FALSE]
        ELSE createReturnValue(r[1], r[2],
               Delegate("existing", state, sessionId, r[2], LastWrite(sessionId)),
               sessionId) :
          r \in {storeRead(w, SessionKey(sessionId))}})

\* the exchange that uses the verifier up: it overwrites it once the tokens
\* are saved
finishAuth_ClearsVerifier(w, d, code) ==
  UNION {IF IsThrown(cv.out) THEN {[w |-> cv.w, out |-> cv.out, t |-> Undef]}
         ELSE {[w |-> cv.w, out |-> Thrown("ExchangeFailed", code), t |-> Undef]}
              \cup {[w |-> storeWrite(Existing_saveTokens(cv.w, d, t).w,
                                      VerifierKey(d.state), Null),
                      out |-> Undef, t |-> t] :
                      t \in TokenResponses} :
           cv \in {Existing_codeVerifier(Log(w, <<"finishAuth">>), d)}}

\* transport.finishAuth(code), as the SDK runs it on the delegate: it asks
\* for the code verifier, exchanges the code, and saves the tokens it got.
\* The outcomes [w, out, t]; t is the token response that was saved.
finishAuth(w, d, code) ==
  UNION {IF IsThrown(cv.out) THEN {[w |-> cv.w, out |-> cv.out, t |-> Undef]}
         ELSE {[w |-> cv.w, out |-> Thrown("ExchangeFailed", code), t |-> Undef]}
              \cup {[w |-> Existing_saveTokens(cv.w, d, t).w, out |-> Undef, t |-> t] :
                      t \in TokenResponses} :
           cv \in {Existing_codeVerifier(Log(w, <<"finishAuth">>), d)}}

\* the callback that trusts the state it is given
completeAuthWithCode_NoStateCheck(w, state, code) ==
  UNION {UNION {IF ~g.ok THEN {[w |-> g.w, out |-> g.out, sid |-> r[2], t |-> Undef]}
                ELSE {[w |-> f.w,
                       out |-> IF IsThrown(f.out) THEN f.out
                               ELSE Obj(<<Prop("sessionId", r[2])>>),
                       sid |-> r[2], t |-> f.t] :
                        f \in finishAuth(g.w, g.d, code)} :
                  g \in {getClientBySessionId(r[1], r[2], state)}} :
           r \in {storeRead(w, StateKey(state))}}

\* completeAuthWithCode: the outcomes [w, out, sid, t]
completeAuthWithCode(w, state, code) ==
  UNION {IF Falsy(r[2])
         THEN {[w |-> r[1], out |-> Thrown("NoSessionForState", state),
                sid |-> Undef, t |-> Undef]}
         ELSE UNION {IF ~g.ok
                     THEN {[w |-> g.w, out |-> g.out, sid |-> r[2], t |-> Undef]}
                     ELSE {[w |-> f.w,
                            out |-> IF IsThrown(f.out) THEN f.out
                                    ELSE Obj(<<Prop("sessionId", r[2])>>),
                            sid |-> r[2], t |-> f.t] :
                             f \in finishAuth(g.w, g.d, code)} :
                       g \in {getClientBySessionId(r[1], r[2], state)}} :
           r \in {storeRead(w, StateKey(state))}}

\* ------------------------------------------------------------------------
\* Next adapter: the OAuth callback handler over the Client Core
\* ------------------------------------------------------------------------
\* Response.json(body, { status }): the body is sent as JSON text
ResponseJson(body, status) ==
  Obj(<<Prop("status", Num(status)), Prop("body", Str(JSONstringify(body)))>>)

ErrorBody(message) == Obj(<<Prop("error", Str(<<message>>))>>)

\* callback(res): what the application's callback cb returns for params
Applied(cb, params) == <<"applied", cb, params>>

\* the handler that looks at the code before the state
completeOAuthHandler_CodeFirst(w, cb, state, code) ==
  IF Falsy(code)
  THEN {[w |-> w, out |-> Promise(ResponseJson(ErrorBody("Authorization code missing"), 400)),
         sid |-> Undef, t |-> Undef]}
  ELSE IF Falsy(state)
  THEN {[w |-> w, out |-> Promise(ResponseJson(ErrorBody("State missing"), 400)),
         sid |-> Undef, t |-> Undef]}
  ELSE {[w |-> IF IsThrown(c.out) THEN c.w ELSE Log(c.w, <<"callback">>),
         out |-> Promise(IF IsThrown(c.out) THEN c.out ELSE Applied(cb, c.out)),
         sid |-> c.sid, t |-> c.t] :
          c \in completeAuthWithCode(Log(w, <<"completeAuthWithCode">>), state, code)}

\* the handler completeOAuthHandler({store, callback}) returns, run on a
\* request whose query holds state and code (null when the parameter is
\* missing): the outcomes [w, out, sid, t]; an async function returns a
\* promise, rejected when completeAuthWithCode throws
completeOAuthHandler(w, cb, state, code) ==
  IF Falsy(state)
  THEN {[w |-> w, out |-> Promise(ResponseJson(ErrorBody("State missing"), 400)),
         sid |-> Undef, t |-> Undef]}
  ELSE IF Falsy(code)
  THEN {[w |-> w, out |-> Promise(ResponseJson(ErrorBody("Authorization code missing"), 400)),
         sid |-> Undef, t |-> Undef]}
  ELSE {[w |-> IF IsThrown(c.out) THEN c.w ELSE Log(c.w, <<"callback">>),
         out |-> Promise(IF IsThrown(c.out) THEN c.out ELSE Applied(cb, c.out)),
         sid |-> c.sid, t |-> c.t] :
          c \in completeAuthWithCode(Log(w, <<"completeAuthWithCode">>), state, code)}

\* the query parameters of a callback request and the application's callbacks
QueryStates == AllStates \cup {ForgedState, Null, Str(<<>>)}
QueryCodes == AuthCodes \cup {Null, Str(<<>>)}
Callbacks == {"redirectHome", "showSession"}

\* what a Client Core call leaves alone: the store adapters' state and the
\* server side
StoreFrame ==
  UNCHANGED <<payload, kind, ttl, now, ticks, writes, fsFile, redisDb, pgTable,
              born, res, serverVars>>

Commit(w) ==
  /\ fsStore' = w.mem
  /\ root' = w.file
  /\ sqliteTable' = w.table
  /\ UNCHANGED mode
  /\ StoreFrame

Ret(op, arg, out, fx, d) == [op |-> op, arg |-> arg, out |-> out, fx |-> fx, d |-> d]

Session(sessionId, state, how, clientId, clientSecret) ==
  [sessionId |-> sessionId, state |-> state, how |-> how, clientId |-> clientId,
   clientSecret |-> clientSecret, last |-> <<"create">>, verifier |-> Undef]

KnownClient(clientId, clientSecret, mcpEndpoint) ==
  Obj(<<Prop("clientId", clientId), Prop("clientSecret", clientSecret),
        Prop("mcpEndpoint", mcpEndpoint), Prop("oauthRedirectUrl", RedirectUrl),
        Prop("mcpClientName", Str(<<"t">>)), Prop("mcpClientVersion", Str(<<"0.0.1">>))>>)

DynamicClient(mcpEndpoint) ==
  Obj(<<Prop("mcpEndpoint", mcpEndpoint), Prop("oauthRedirectUrl", RedirectUrl),
        Prop("mcpClientName", Str(<<"t">>)), Prop("mcpClientVersion", Str(<<"0.0.1">>)),
        Prop("clientId", Undef), Prop("clientSecret", Undef)>>)

\* the common part of the two constructors
Created(op, how, client) ==
  /\ uuids + 2 <= 2 * MaxSessions
  /\ \E state \in {randomUUID(uuids + 1)}, sessionId \in {randomUUID(uuids + 2)} :
       \E w1 \in {storeWrite(World, StateKey(state), sessionId)} :
         \E w2 \in {storeWrite(w1, SessionKey(sessionId), client)} :
           \E r \in {createReturnValue(w2, client,
                       Delegate(how, state, sessionId, client, <<"create">>),
                       sessionId)} :
             /\ Commit(r.w)
             /\ delegates' = IF r.ok THEN delegates \cup {r.d} ELSE delegates
             /\ sessions' = sessions \cup
                  {Session(sessionId, state, how, Field(client, "clientId"),
                           Field(client, "clientSecret"))}
             /\ ret' = Ret(op, client, r.out, r.w.fx, r.d)
  /\ uuids' = uuids + 2

CreateKnownCredentialsMcpClient(clientId, clientSecret, mcpEndpoint) ==
  Created("createKnownCredentialsMcpClient", "known",
          KnownClient(clientId, clientSecret, mcpEndpoint))

CreateDynamicallyRegisteredMcpClient(mcpEndpoint) ==
  Created("createDynamicallyRegisteredMcpClient", "dynamic", DynamicClient(mcpEndpoint))

Existing == {d \in delegates : d.phase = "existing"}

GetClientBySessionId(sessionId, state) ==
  \E g \in {getClientBySessionId(World, sessionId, state)} :
    /\ g.ok => (g.d \in delegates \/ Cardinality(Existing) < MaxDelegates)
    /\ Commit(g.w)
    /\ delegates' = IF g.ok THEN delegates \cup {g.d} ELSE delegates
    /\ ret' = Ret("getClientBySessionId",
                  Obj(<<Prop("sessionId", sessionId), Prop("state", state)>>),
                  g.out, g.w.fx, g.d)
    /\ UNCHANGED <<uuids, sessions>>

CompleteAuthWithCode(state, code) ==
  \E c \in completeAuthWithCode(World, state, code) :
    /\ Commit(c.w)
    /\ sessions' = IF c.t = Undef THEN sessions
                   ELSE Noted(sessions, c.sid, <<"tokens", c.t>>)
    /\ ret' = Ret("completeAuthWithCode",
                  Obj(<<Prop("state", state), Prop("code", code)>>),
                  c.out, c.w.fx, Undef)
    /\ UNCHANGED <<uuids, delegates>>

CompleteOAuthHandler(cb, state, code) ==
  \E c \in completeOAuthHandler(World, cb, state, code) :
    /\ Commit(c.w)
    /\ sessions' = IF c.t = Undef THEN sessions
                   ELSE Noted(sessions, c.sid, <<"tokens", c.t>>)
    /\ ret' = Ret("completeOAuthHandler",
                  Obj(<<Prop("state", state), Prop("code", code),
                        Prop("callback", Str(<<cb>>))>>),
                  c.out, c.w.fx, Undef)
    /\ UNCHANGED <<uuids, delegates>>

\* the end of a hook call on delegate d
Returned(op, arg, h, d) ==
  /\ Commit(h.w)
  /\ delegates' = (delegates \ {d}) \cup {h.d}
  /\ ret' = Ret(op, arg, h.out, h.w.fx, d)
  /\ UNCHANGED uuids

ClientInformation(d) ==
  /\ \E h \in {CASE d.phase = "known" -> Known_clientInformation(World, d)
                 [] d.phase = "dynamic" -> Dynamic_clientInformation(World, d)
                 [] OTHER -> Existing_clientInformation(World, d)} :
       Returned("clientInformation", Undef, h, d)
  /\ UNCHANGED sessions

SaveClientInformation(d, newInfo) ==
  /\ \E h \in {CASE d.phase = "known" -> Known_saveClientInformation(World, d, newInfo)
                 [] d.phase = "dynamic" -> Dynamic_saveClientInformation(World, d, newInfo)
                 [] OTHER -> Existing_saveClientInformation(World, d, newInfo)} :
       Returned("saveClientInformation", newInfo, h, d)
  /\ sessions' = CASE d.phase = "known" -> sessions
                   [] d.phase = "dynamic" ->
                        Noted(sessions, d.sessionId, <<"register", newInfo>>)
                   [] OTHER -> Noted(sessions, d.sessionId, <<"merge", newInfo>>)

Tokens(d) ==
  /\ \E h \in {CASE d.phase = "known" -> Known_tokens(World, d)
                 [] d.phase = "dynamic" -> Dynamic_tokens(World, d)
                 [] OTHER -> Existing_tokens(World, d)} :
       Returned("tokens", Undef, h, d)
  /\ UNCHANGED sessions

SaveTokens(d, t) ==
  /\ \E h \in {CASE d.phase = "known" -> Known_saveTokens(World, d, t)
                 [] d.phase = "dynamic" -> Dynamic_saveTokens(World, d, t)
                 [] OTHER -> Existing_saveTokens(World, d, t)} :
       Returned("saveTokens", t, h, d)
  /\ sessions' = IF d.phase = "existing"
                 THEN Noted(sessions, d.sessionId, <<"tokens", t>>) ELSE sessions

RedirectToAuthorization(d) ==
  /\ \E h \in {CASE d.phase = "known" -> Known_redirectToAuthorization(World, d)
                 [] d.phase = "dynamic" -> Dynamic_redirectToAuthorization(World, d)
                 [] OTHER -> Existing_redirectToAuthorization(World, d)} :
       Returned("redirectToAuthorization", Undef, h, d)
  /\ UNCHANGED sessions

SaveCodeVerifier(d, verifier) ==
  /\ \E h \in {CASE d.phase = "known" -> Known_saveCodeVerifier(World, d, verifier)
                 [] d.phase = "dynamic" -> Dynamic_saveCodeVerifier(World, d, verifier)
                 [] OTHER -> Existing_saveCodeVerifier(World, d, verifier)} :
       Returned("saveCodeVerifier", verifier, h, d)
  /\ sessions' = IF d.phase = "existing" THEN sessions
                 ELSE NotedVerifier(sessions, d.state, verifier)

CodeVerifier(d) ==
  /\ \E h \in {CASE d.phase = "known" -> Known_codeVerifier(World, d)
                 [] d.phase = "dynamic" -> Dynamic_codeVerifier(World, d)
                 [] OTHER -> Existing_codeVerifier(World, d)} :
       Returned("codeVerifier", Undef, h, d)
  /\ UNCHANGED sessions

\* the application drops a delegate: the request that held it has ended
Release(d) ==
  /\ delegates' = delegates \ {d}
  /\ ret' = NoRet
  /\ UNCHANGED <<mode, fsStore, root, uuids, sessions>>
  /\ UNCHANGED <<storeVars, serverVars>>

ClientNext ==
  \/ \E c \in KnownCredentials, e \in McpEndpoints :
       CreateKnownCredentialsMcpClient(c[1], c[2], e)
  \/ \E e \in McpEndpoints : CreateDynamicallyRegisteredMcpClient(e)
  \/ \E sessionId \in AllSessionIds \cup {ForgedSessionId},
          state \in AllStates \cup {ForgedState, Undef} :
       GetClientBySessionId(sessionId, state)
  \/ \E state \in AllStates \cup {ForgedState}, code \in AuthCodes :
       CompleteAuthWithCode(state, code)
  \/ \E d \in delegates : ClientInformation(d)
  \/ \E d \in delegates, newInfo \in RegistrationResponses :
       SaveClientInformation(d, newInfo)
  \/ \E d \in delegates : Tokens(d)
  \/ \E d \in delegates, t \in TokenResponses : SaveTokens(d, t)
  \/ \E d \in delegates : RedirectToAuthorization(d)
  \/ \E d \in delegates, verifier \in Verifiers : SaveCodeVerifier(d, verifier)
  \/ \E d \in delegates : CodeVerifier(d)
  \/ \E d \in delegates : Release(d)

\* the store adapters' variables while the Client Core runs
StoreIdle ==
  /\ payload = {}
  /\ kind = "sqlite"
  /\ ttl = 0
  /\ now = 0
  /\ ticks = 0
  /\ writes = 0
  /\ fsFile = NoFile
  /\ redisDb = <<>>
  /\ pgTable = <<>>
  /\ sqliteTable = <<>>
  /\ born = [k \in StoreKeys |-> -1]
  /\ res = NoCall

\* the Client Core over the synchronous legacy file store
InitClient == StoreIdle /\ ClientStart("legacy") /\ ServerStart

SpecClient == InitClient /\ [][ClientNext]_vars

\* the OAuth callback endpoint of an application that creates sessions and
\* starts authorization flows
OAuthNext ==
  \/ \E c \in KnownCredentials, e \in McpEndpoints :
       CreateKnownCredentialsMcpClient(c[1], c[2], e)
  \/ \E e \in McpEndpoints : CreateDynamicallyRegisteredMcpClient(e)
  \/ \E d \in delegates, newInfo \in RegistrationResponses :
       SaveClientInformation(d, newInfo)
  \/ \E d \in delegates, verifier \in Verifiers : SaveCodeVerifier(d, verifier)
  \/ \E cb \in Callbacks, state \in QueryStates, code \in QueryCodes :
       CompleteOAuthHandler(cb, state, code)

InitOAuth == StoreIdle /\ ClientStart("legacy") /\ ServerStart

SpecOAuth == InitOAuth /\ [][OAuthNext]_vars

\* a new process of the application starts: the module-wide mapping of the
\* legacy file store is empty again and no object of the old process is
\* left, the file at root stays
ProcessStarts ==
  /\ fsStore # Obj(<<>>) \/ delegates # {}
  /\ fsStore' = Obj(<<>>)
  /\ delegates' = {}
  /\ ret' = NoRet
  /\ UNCHANGED <<mode, root, uuids, sessions>>
  /\ UNCHANGED <<storeVars, serverVars>>

\* the entry points of one session served by separately started processes:
\* the initial connect, the OAuth callback, later calls
ProcessNext ==
  \/ \E c \in KnownCredentials, e \in McpEndpoints :
       CreateKnownCredentialsMcpClient(c[1], c[2], e)
  \/ \E e \in McpEndpoints : CreateDynamicallyRegisteredMcpClient(e)
  \/ \E d \in delegates, newInfo \in RegistrationResponses :
       SaveClientInformation(d, newInfo)
  \/ \E d \in delegates, verifier \in Verifiers : SaveCodeVerifier(d, verifier)
  \/ \E sessionId \in AllSessionIds, state \in AllStates :
       GetClientBySessionId(sessionId, state)
  \/ \E state \in AllStates, code \in AuthCodes : CompleteAuthWithCode(state, code)
  \/ \E d \in delegates : Tokens(d)
  \/ ProcessStarts

InitProcess == StoreIdle /\ ClientStart("legacy") /\ ServerStart

SpecProcess == InitProcess /\ [][ProcessNext]_vars

\* ---- two sessions in one store ----
\* a session the process created before, by dynamic registration: the two
\* values randomUUID gave it are outside the ones it gives from now on
EarlierState == Str(<<"uuid-", "a">>)
EarlierSessionId == Str(<<"uuid-", "b">>)

EarlierClient == DynamicClient(Str(<<"https://", "z/mcp">>))

EarlierVerifier == Str(<<"v2">>)

\* the mapping of the legacy file store after the earlier session's two
\* writes and its delegate's saveCodeVerifier
EarlierStore ==
  SetProp(SetProp(SetProp(Obj(<<>>), StateKey(EarlierState), EarlierSessionId),
                  SessionKey(EarlierSessionId), EarlierClient),
          VerifierKey(EarlierState), EarlierVerifier)

IsolationNext ==
  \/ \E c \in {<<Str(<<"c1">>), Str(<<"s1">>)>>}, e \in McpEndpoints :
       CreateKnownCredentialsMcpClient(c[1], c[2], e)
  \/ \E sessionId \in AllSessionIds \cup {EarlierSessionId},
          state \in AllStates \cup {EarlierState} :
       GetClientBySessionId(sessionId, state)
  \/ \E state \in AllStates \cup {EarlierState}, code \in AuthCodes :
       CompleteAuthWithCode(state, code)
  \/ \E d \in delegates, newInfo \in RegistrationResponses :
       SaveClientInformation(d, newInfo)
  \/ \E d \in delegates, t \in TokenResponses : SaveTokens(d, t)
  \/ \E d \in delegates, verifier \in {Str(<<"v1">>)} : SaveCodeVerifier(d, verifier)
  \/ \E d \in Existing : Release(d)

\* the process has let go of the delegate of the earlier session and is
\* about to create another session in the same store
InitIsolation ==
  /\ StoreIdle
  /\ ServerStart
  /\ mode = "legacy"
  /\ fsStore = EarlierStore
  /\ root = FileOf(JSONstringify(EarlierStore))
  /\ uuids = 0
  /\ delegates = {}
  /\ sessions = NotedVerifier({Session(EarlierSessionId, EarlierState, "dynamic",
                                       Undef, Undef)},
                              EarlierState, EarlierVerifier)
  /\ ret = NoRet

SpecIsolation == InitIsolation /\ [][IsolationNext]_vars

\* the Client Core over the SQLite adapter, whose read and write are async
InitAsync == StoreIdle /\ ClientStart("sqlite") /\ ServerStart

SpecAsync == InitAsync /\ [][ClientNext]_vars

\* ------------------------------------------------------------------------
\* Claims about the Client Core
\* ------------------------------------------------------------------------
\* history: the verifier last passed to saveCodeVerifier for state
SavedVerifier(state) ==
  IF \E s \in sessions : s.state = state
  THEN (CHOOSE s \in sessions : s.state = state).verifier
  ELSE Undef

\* C6: once createKnownCredentialsMcpClient was called with clientId c1 and
\* clientSecret s1 and returned sessionId, clientInformation() on a client
\* that getClientBySessionId reconstructs for that sessionId returns
\* {client_id: c1, client_secret: s1}.
C6_KnownCredentialsReconstructed ==
  (ret.op = "clientInformation" /\ ret.d.phase = "existing")
    => \A s \in sessions :
         (s.how = "known" /\ s.sessionId = ret.d.sessionId)
           => ret.out = Obj(<<Prop("client_id", s.clientId),
                              Prop("client_secret", s.clientSecret)>>)

C6_Witness ==
  /\ ret.op = "clientInformation"
  /\ ret.d.phase = "existing"
  /\ \E s \in sessions : s.how = "known" /\ s.sessionId = ret.d.sessionId
  /\ ret.out = Obj(<<Prop("client_id", Str(<<"c1">>)),
                     Prop("client_secret", Str(<<"s1">>))>>)

\* C7: saveClientInformation({client_id: c2, client_secret: s2}) on the
\* delegate of createDynamicallyRegisteredMcpClient rewrites the record under
\* the same session key (no key appears or disappears, no other key changes,
\* the record now carries c2 and s2), and a client reconstructed from that
\* record by a later getClientBySessionId answers clientInformation() with
\* {client_id: c2, client_secret: s2}.
C7_DynamicRegistrationPersists ==
  [][/\ (ret'.op = "saveClientInformation" /\ ret'.d.phase = "dynamic")
          => /\ StoredKeys' = StoredKeys
             /\ SessionKey(ret'.d.sessionId) \in StoredKeys
             /\ \A k \in StoredKeys :
                  IF k # SessionKey(ret'.d.sessionId) THEN Stored(k)' = Stored(k)
                  ELSE /\ Field(Stored(k)', "clientId") = Field(ret'.arg, "client_id")
                       /\ Field(Stored(k)', "clientSecret")
                            = Field(ret'.arg, "client_secret")
     /\ (ret'.op = "clientInformation" /\ ret'.d.phase = "existing"
           /\ ret'.d.basis[1] = "register")
          => ret'.out = Obj(<<Prop("client_id", Field(ret'.d.basis[2], "client_id")),
                              Prop("client_secret",
                                   Field(ret'.d.basis[2], "client_secret"))>>)]_vars

C7_Witness ==
  /\ ret.op = "clientInformation"
  /\ ret.d.phase = "existing"
  /\ ret.d.basis[1] = "register"
  /\ ret.out = Obj(<<Prop("client_id", Str(<<"c2">>)),
                     Prop("client_secret", Str(<<"s2">>))>>)

\* C8: completeAuthWithCode with a state that no session was created with
\* fails with the error that names that state, having done nothing but read
\* the store (no transport built, finishAuth not called, nothing written),
\* and the store holds what it held before.
C8_UnknownStateRejected ==
  [][(ret'.op = "completeAuthWithCode"
        /\ \A s \in sessions : s.state # Field(ret'.arg, "state"))
       => /\ ret'.out = Thrown("NoSessionForState", Field(ret'.arg, "state"))
          /\ \A i \in 1..Len(ret'.fx) : ret'.fx[i][1] = "read"
          /\ StoredKeys' = StoredKeys
          /\ \A k \in StoredKeys : Stored(k)' = Stored(k)]_vars

C8_Witness ==
  /\ ret.op = "completeAuthWithCode"
  /\ Field(ret.arg, "state") = ForgedState
  /\ ret.out = Thrown("NoSessionForState", ForgedState)
  /\ Cardinality(StoredKeys) >= 3

\* C9: with a store whose read returns its result asynchronously,
\* getClientBySessionId for a sessionId with no stored record fails with the
\* session-not-found error, completeAuthWithCode for an unmapped state fails
\* with the no-session-for-state error, and for a stored record the
\* reconstructed delegate's clientInformation() gives the stored credentials.
C9_AsyncStoreSupported ==
  /\ (ret.op = "getClientBySessionId"
        /\ Stored(SessionKey(Field(ret.arg, "sessionId"))) = Undef)
       => ret.out = Thrown("SessionNotFound", Field(ret.arg, "sessionId"))
  /\ (ret.op = "completeAuthWithCode"
        /\ Stored(StateKey(Field(ret.arg, "state"))) = Undef)
       => ret.out = Thrown("NoSessionForState", Field(ret.arg, "state"))
  /\ (ret.op = "getClientBySessionId"
        /\ Stored(SessionKey(Field(ret.arg, "sessionId"))) # Undef)
       => /\ ~IsThrown(ret.out)
          /\ Existing_clientInformation(World, ret.d).out
               = ClientInformationOf(Stored(SessionKey(Field(ret.arg, "sessionId"))))

\* C10: codeVerifier() on a client reconstructed by getClientBySessionId
\* throws when no state was given; given a state for which saveCodeVerifier
\* saved a verifier it returns exactly that verifier; given a state with no
\* saved verifier it throws the error that names that state.
C10_CodeVerifierNeedsState ==
  (ret.op = "codeVerifier" /\ ret.d.phase = "existing")
    => IF ret.d.state = Undef THEN IsThrown(ret.out)
       ELSE IF SavedVerifier(ret.d.state) # Undef
            THEN ret.out = SavedVerifier(ret.d.state)
            ELSE ret.out = Thrown("NoCodeVerifier", ret.d.state)

C10_Witness ==
  /\ ret.op = "codeVerifier"
  /\ ret.d.phase = "existing"
  /\ ret.d.state \in AllStates
  /\ ret.out = Str(<<"v2">>)

\* the phase as the error message of an invalid hook spells it
PhaseText(phase) ==
  CASE phase = "known" -> "initializing a known credentials client"
    [] phase = "dynamic" -> "initializing a dynamically registered client"
    [] OTHER -> "getting an existing client"

\* the hook call of this step neither wrote to the store nor had any effect
NothingWritten ==
  /\ ret'.fx = <<>>
  /\ fsStore' = fsStore /\ root' = root /\ sqliteTable' = sqliteTable

\* C11: a hook that is invalid in a phase fails with a message naming the
\* hook and the phase and writes nothing to the store: saveClientInformation,
\* saveTokens and codeVerifier on a delegate of createKnownCredentialsMcpClient,
\* redirectToAuthorization and saveCodeVerifier on a delegate of
\* getClientBySessionId.
C11_InvalidHooksFailLoudly ==
  [][((ret'.op \in {"saveClientInformation", "saveTokens", "codeVerifier"}
         /\ ret'.d.phase = "known")
      \/ (ret'.op \in {"redirectToAuthorization", "saveCodeVerifier"}
            /\ ret'.d.phase = "existing"))
       => /\ ret'.out = Thrown("UnexpectedCall", <<ret'.op, PhaseText(ret'.d.phase)>>)
          /\ NothingWritten]_vars

C11_Witness ==
  /\ ret.op = "saveCodeVerifier"
  /\ ret.d.phase = "existing"
  /\ ret.out = Thrown("UnexpectedCall", <<"saveCodeVerifier", "getting an existing client">>)
  /\ Cardinality(StoredKeys) >= 2

\* C12 as stated: on a delegate of createDynamicallyRegisteredMcpClient each
\* of tokens, saveTokens and codeVerifier fails when called.
C12_DynamicHooksAllFail ==
  (/\ ret.op \in {"tokens", "saveTokens", "codeVerifier"}
   /\ ret.d.phase = "dynamic")
    => IsThrown(ret.out)

\* C12 as the code has it: on a delegate of
\* createDynamicallyRegisteredMcpClient saveTokens and codeVerifier fail with
\* a message naming the hook and the phase and write nothing, and tokens
\* returns undefined, also without touching the store.
C12_DynamicHooksFailExceptTokens ==
  [][(ret'.op \in {"tokens", "saveTokens", "codeVerifier"} /\ ret'.d.phase = "dynamic")
       => /\ NothingWritten
          /\ ret'.out = IF ret'.op = "tokens" THEN Undef
                        ELSE Thrown("UnexpectedCall",
                                    <<ret'.op, PhaseText(ret'.d.phase)>>)]_vars

C12_Witness ==
  /\ ret.op = "tokens"
  /\ ret.d.phase = "dynamic"
  /\ ret.out = Undef
  /\ ~Falsy(Field(ret.d.client, "clientId"))

\* the persisted record of session s, and the keys that hold session records
SessionRecord(s) == Stored(SessionKey(s.sessionId))
SessionRecordKeys == {k \in StoredKeys : k[1] = SESSION_PREFIX[1]}

\* C13: the persisted record of a session only moves forward (created,
\* registered, authorized, refreshed): every step rewrites the record under
\* the same session key, and once the record holds client credentials or an
\* access token, no later call removes them from it.
C13_SessionRecordMovesForward ==
  [][\A s \in sessions :
       /\ SessionKey(s.sessionId) \in SessionRecordKeys'
       /\ (sessions' = sessions => SessionRecordKeys' = SessionRecordKeys)
       /\ (~Falsy(Field(SessionRecord(s), "clientId"))
             => ~Falsy(Field(SessionRecord(s)', "clientId")))
       /\ (~Falsy(Field(SessionRecord(s), "accessToken"))
             => ~Falsy(Field(SessionRecord(s)', "accessToken")))]_vars

\* C14: the record of a session created by createKnownCredentialsMcpClient
\* holds the clientId and clientSecret it was created with, after any
\* sequence of hook calls on any of its delegates.
C14_KnownCredentialsKept ==
  \A s \in sessions :
    s.how = "known"
      => /\ Field(SessionRecord(s), "clientId") = s.clientId
         /\ Field(SessionRecord(s), "clientSecret") = s.clientSecret

C14_Witness ==
  \E s \in sessions :
    /\ s.how = "known"
    /\ ~Falsy(Field(SessionRecord(s), "accessToken"))
    /\ HasProp(SessionRecord(s), <<"client_id">>)
    /\ Field(SessionRecord(s), "clientId") = s.clientId

\* the keys the Client Core derives from the states and session ids
ClientKeys ==
  {StateKey(s) : s \in AllStates} \cup {VerifierKey(s) : s \in AllStates}
    \cup {SessionKey(s) : s \in AllSessionIds}

\* the names of the properties of object o
Names(o) == IF Tag(o) = "obj" THEN SeqRange(ObjectKeys(o)) ELSE {}

\* the credentials of a registration response, as clientInformation gives
\* them
Registered(newInfo) ==
  Obj(<<Prop("client_id", Field(newInfo, "client_id")),
        Prop("client_secret", Field(newInfo, "client_secret"))>>)

\* C31: saveClientInformation({client_id, client_secret}) on a delegate
\* reconstructed by getClientBySessionId leaves every earlier field in the
\* stored record, and a client reconstructed by a later
\* getClientBySessionId for the same sessionId answers clientInformation()
\* with those new credentials.
C31_ExistingRegistrationPersists ==
  [][/\ (ret'.op = "saveClientInformation" /\ ret'.d.phase = "existing")
          => \A k \in ClientKeys :
               k = SessionKey(ret'.d.sessionId)
                 => \A name \in Names(Stored(k)) : HasProp(Stored(k)', name)
     /\ (ret'.op = "clientInformation" /\ ret'.d.phase = "existing"
           /\ ret'.d.basis[1] = "merge")
          => ret'.out = Registered(ret'.d.basis[2])]_vars

\* the token pair of a token response, as the session record holds it
TokenFields == {<<"accessToken">>, <<"refreshToken">>}

\* C32: saveTokens({access_token: t, refresh_token: r}) on a delegate
\* reconstructed by getClientBySessionId leaves, under the same session
\* key, a record with accessToken t and refreshToken r whose other fields
\* are what they were; tokens() on a delegate reconstructed after it returns
\* {access_token: t, token_type: "Bearer"}; on a delegate of a session for
\* which nothing was saved since its creation tokens() returns undefined.
C32_TokensPersist ==
  [][/\ (ret'.op = "saveTokens" /\ ret'.d.phase = "existing")
          => \A k \in ClientKeys :
               k = SessionKey(ret'.d.sessionId)
                 => /\ Field(Stored(k)', "accessToken") = Field(ret'.arg, "access_token")
                    /\ Field(Stored(k)', "refreshToken") = Field(ret'.arg, "refresh_token")
                    /\ \A name \in (Names(Stored(k)) \cup Names(Stored(k)')) \ TokenFields :
                         GetProp(Stored(k)', name) = GetProp(Stored(k), name)
     /\ (ret'.op = "tokens" /\ ret'.d.phase = "existing" /\ ret'.d.basis[1] = "tokens")
          => ret'.out = Obj(<<Prop("access_token", Field(ret'.d.basis[2], "access_token")),
                              Prop("token_type", Str(<<"Bearer">>))>>)
     /\ (ret'.op = "tokens" /\ ret'.d.phase = "existing"
           /\ ret'.d.basis[1] = "create" /\ LastWrite(ret'.d.sessionId)[1] = "create")
          => ret'.out = Undef]_vars

\* C36: for a persisted record that holds no clientId (a dynamically
\* registered session whose registration has not completed),
\* clientInformation() on a delegate reconstructed by getClientBySessionId
\* returns undefined, as the creating delegate does.
C36_UnregisteredIsAbsent ==
  (/\ ret.op = "clientInformation"
   /\ ret.d.phase \in {"existing", "dynamic"}
   /\ Falsy(Field(ret.d.client, "clientId")))
    => ret.out = Undef

\* C37: on one delegate reconstructed by getClientBySessionId, tokens()
\* called after saveTokens({access_token: t}) returns access_token t, and a
\* saveTokens called after saveClientInformation leaves in the record the
\* fields saveClientInformation stored.
C37_HooksSeeOwnEffects ==
  [][/\ (/\ ret.op = "saveTokens" /\ ret'.op = "tokens"
         /\ ret.d.phase = "existing" /\ ret'.d = ret.d)
          => Field(ret'.out, "access_token") = Field(ret.arg, "access_token")
     /\ (/\ ret.op = "saveClientInformation" /\ ret'.op = "saveTokens"
         /\ ret.d.phase = "existing" /\ ret'.d = ret.d)
          => \A k \in ClientKeys :
               k = SessionKey(ret.d.sessionId)
                 => \A name \in Names(ret.arg) :
                      GetProp(Stored(k)', name) = GetProp(ret.arg, name)]_vars

\* the keys a call wrote to
Written(fx) == {fx[i][2] : i \in {j \in 1..Len(fx) : fx[j][1] = "write"}}

\* the state a call of completeAuthWithCode was given
GivenState(r) == Field(r.arg, "state")

\* C38: a successful completeAuthWithCode writes neither the state mapping
\* nor the verifier of its state: both keys hold afterwards what they held
\* before, and a second call with the same state right after it finds the
\* session and the verifier again.
C38_CallbackKeepsItsKeys ==
  [][/\ (ret'.op = "completeAuthWithCode" /\ ~IsThrown(ret'.out))
          => \A k \in ClientKeys :
               k \in {StateKey(GivenState(ret')), VerifierKey(GivenState(ret'))}
                 => /\ Stored(k) # Undef
                    /\ Stored(k)' = Stored(k)
                    /\ k \notin Written(ret'.fx)
     /\ (/\ ret.op = "completeAuthWithCode" /\ ~IsThrown(ret.out)
         /\ ret'.op = "completeAuthWithCode" /\ GivenState(ret') = GivenState(ret))
          => (IsThrown(ret'.out) => ret'.out[2] = "ExchangeFailed")]_vars

\* the callback has succeeded for a session that already held tokens: it
\* was called a second time
C38_Witness ==
  /\ ret.op = "completeAuthWithCode"
  /\ ~IsThrown(ret.out)
  /\ Len(SelectSeq(ret.fx, LAMBDA e : e = <<"finishAuth">>)) = 1
  /\ Stored(StateKey(GivenState(ret))) = Field(ret.out, "sessionId")
  /\ Stored(VerifierKey(GivenState(ret))) \in Verifiers

\* ------------------------------------------------------------------------
\* Claims about sessions that share a store
\* ------------------------------------------------------------------------
\* the three keys of session s
OwnKeys(s) == {VerifierKey(s.state), StateKey(s.state), SessionKey(s.sessionId)}

\* every key a session of this store may have
SessionKeys ==
  ClientKeys \cup {VerifierKey(EarlierState), StateKey(EarlierState),
                   SessionKey(EarlierSessionId)}

\* the session id the call that has returned r was made for: the one given
\* to getClientBySessionId, the one the given state is mapped to, the one
\* of the delegate
CalledFor(r, S) ==
  CASE r.op = "getClientBySessionId" -> Field(r.arg, "sessionId")
    [] r.op = "completeAuthWithCode" ->
         IF \E s \in S : s.state = GivenState(r)
         THEN (CHOOSE s \in S : s.state = GivenState(r)).sessionId
         ELSE Undef
    [] OTHER -> r.d.sessionId

FsEntry(k) == GetProp(FsData, k)

\* this step ends a write or a delete of key k
EndsCallOn(k) == \E p \in suspended : p \notin suspended' /\ p.k = k

\* C35: within one process, whatever the order in which the steps of
\* overlapping fs-store calls (write, read, delete, on one key or on
\* different keys) run, a key whose write has completed stays in the file
\* with its value until a write or a delete of that same key completes.
C35_OverlappingCallsKeepKeys ==
  [][\A k \in StoreKeys :
       (FsEntry(k) # Undef /\ ~EndsCallOn(k))
         => GetProp(FsEntry(k)', <<"value">>) = GetProp(FsEntry(k), <<"value">>)]_vars

\* ------------------------------------------------------------------------
\* Claims about the legacy file store shared by processes
\* ------------------------------------------------------------------------
\* C30: when the legacy file store is used from separately started
\* processes that share the file, a write in one process leaves every key
\* written earlier by another process readable: after process A wrote the
\* state mapping and the session record, a write by process B does not
\* remove A's keys from the shared JSON document.
C30_ProcessesShareTheFile ==
  [][\A k \in ClientKeys : Stored(k) # Undef => Stored(k)' # Undef]_vars

\* ------------------------------------------------------------------------
\* Claims about the OAuth callback handler
\* ------------------------------------------------------------------------
\* the store as the Client Core sees it
StoreContent == <<fsStore, root, sqliteTable>>

\* the step is a run of the callback handler on a query with this state/code
HandlerRan == ret'.op = "completeOAuthHandler" /\ ret' # ret

BadRequest(message) == Promise(ResponseJson(ErrorBody(message), 400))

\* C23: the handler of completeOAuthHandler answers 400 {error: "State
\* missing"} when the query has no state, otherwise 400 {error:
\* "Authorization code missing"} when it has no code; in both cases
\* completeAuthWithCode and the callback are not invoked and the store is
\* not touched; with both present it returns what the callback returns for
\* the result of completeAuthWithCode.
C23_CallbackHandler ==
  [][HandlerRan =>
       \E state \in {Field(ret'.arg, "state")}, code \in {Field(ret'.arg, "code")},
          cb \in {Field(ret'.arg, "callback")[2][1]} :
         /\ Falsy(state) =>
              /\ ret'.out = BadRequest("State missing")
              /\ ret'.fx = <<>> /\ StoreContent' = StoreContent
         /\ (~Falsy(state) /\ Falsy(code)) =>
              /\ ret'.out = BadRequest("Authorization code missing")
              /\ ret'.fx = <<>> /\ StoreContent' = StoreContent
         /\ (~Falsy(state) /\ ~Falsy(code)) =>
              \E c \in completeAuthWithCode(World, state, code) :
                /\ StoreContent' = <<c.w.mem, c.w.file, c.w.table>>
                /\ IF IsThrown(c.out) THEN ret'.out = Promise(c.out)
                   ELSE ret'.out = Promise(Applied(cb, c.out))]_vars

\* the handler was given a state and a code of a started flow and returned
\* what the callback made of the session
C23_Witness ==
  /\ ret.op = "completeOAuthHandler"
  /\ ret.out = Promise(Applied("showSession", Obj(<<Prop("sessionId", randomUUID(2))>>)))
  /\ ~Falsy(Field(Stored(SessionKey(randomUUID(2))), "accessToken"))

\* ------------------------------------------------------------------------
\* Server Core: verifyClerkToken and the metadata generators
\* ------------------------------------------------------------------------
\* the authentication state the identity provider's SDK hands out
AuthObject(isAuthenticated, tokenType, clientId, scopes, userId) ==
  Obj(<<Prop("isAuthenticated", Bool(isAuthenticated)),
        Prop("tokenType", Str(<<tokenType>>)),
        Prop("clientId", clientId), Prop("scopes", scopes), Prop("userId", userId)>>)

TokenTypes == {"oauth_token", "session_token"}
AuthObjects ==
  {AuthObject(a, t, c, sc, u) :
     a \in BOOLEAN, t \in TokenTypes, c \in {Undef, Str(<<"c1">>)},
     sc \in {Undef, List(<<>>), List(<<Str(<<"read">>)>>)},
     u \in {Undef, Str(<<"u1">>)}}
\* the bearer tokens a caller passes: none, the empty string, a token
BearerTokens == {Undef, Str(<<>>), Str(<<"tok1">>)}

\* auth.name, and the fields read so far; reading a field of undefined throws
Verified(out, reads) == [out |-> out, reads |-> reads]

\* the verification that looks at the authentication state first
verifyClerkToken_AuthFirst(auth, token) ==
  IF Tag(auth) # "obj" THEN Verified(Thrown("TypeError", <<"isAuthenticated">>), <<>>)
  ELSE IF Falsy(Field(auth, "isAuthenticated"))
  THEN Verified(Undef, <<"isAuthenticated">>)
  ELSE IF Falsy(token) THEN Verified(Undef, <<"isAuthenticated">>)
  ELSE Verified(Obj(<<Prop("token", token), Prop("scopes", Field(auth, "scopes")),
                      Prop("clientId", Field(auth, "clientId")),
                      Prop("extra", Obj(<<Prop("userId", Field(auth, "userId"))>>))>>),
                <<"isAuthenticated", "scopes", "clientId", "userId">>)

\* verifyClerkToken of the server core
verifyClerkToken(auth, token) ==
  IF Falsy(token) THEN Verified(Undef, <<>>)
  ELSE IF Tag(auth) # "obj"
  THEN Verified(Thrown("TypeError", <<"isAuthenticated">>), <<>>)
  ELSE IF Falsy(Field(auth, "isAuthenticated"))
  THEN Verified(Undef, <<"isAuthenticated">>)
  ELSE IF Field(auth, "tokenType") # Str(<<"oauth_token">>)
  THEN Verified(Thrown("WrongTokenType", Field(auth, "tokenType")),
                <<"isAuthenticated", "tokenType">>)
  ELSE IF Falsy(Field(auth, "clientId"))
  THEN Verified(Undef, <<"isAuthenticated", "tokenType", "clientId">>)
  ELSE IF Falsy(Field(auth, "scopes"))
  THEN Verified(Undef, <<"isAuthenticated", "tokenType", "clientId", "scopes">>)
  ELSE IF Falsy(Field(auth, "userId"))
  THEN Verified(Undef, <<"isAuthenticated", "tokenType", "clientId", "scopes", "userId">>)
  ELSE Verified(Obj(<<Prop("token", token), Prop("scopes", Field(auth, "scopes")),
                      Prop("clientId", Field(auth, "clientId")),
                      Prop("extra", Obj(<<Prop("userId", Field(auth, "userId"))>>))>>),
                <<"isAuthenticated", "tokenType", "clientId", "scopes", "userId">>)

\* verifyClerkToken of the Next adapter: the same body in an async function,
\* so the caller gets a promise, fulfilled with the value or rejected with
\* the error
Next_verifyClerkToken(auth, token) ==
  Only({Verified(Promise(v.out), v.reads) : v \in {verifyClerkToken(auth, token)}})

\* Object.assign(target, source): undefined as source adds nothing
ObjectAssign(target, source) ==
  IF Tag(source) = "obj" THEN Assign(target, source[2], 1) ELSE target

\* `${url}${suffix}`
Suffixed(url, suffix) == Str(TemplateString(url) \o <<suffix>>)

\* the generator that takes the resource for the authorization server
generateProtectedResourceMetadata_Swapped(authServerUrl, resourceUrl, properties) ==
  ObjectAssign(
    Obj(<<Prop("resource", authServerUrl),
          Prop("authorization_servers", List(<<resourceUrl>>)),
          Prop("jwks_uri", Suffixed(resourceUrl, "/.well-known/jwks.json"))>>),
    properties)

generateProtectedResourceMetadata(authServerUrl, resourceUrl, properties) ==
  ObjectAssign(
    Obj(<<Prop("resource", resourceUrl),
          Prop("authorization_servers", List(<<authServerUrl>>)),
          Prop("token_types_supported",
               List(<<Str(<<"urn:ietf:params:oauth:token-type:access_token">>)>>)),
          Prop("token_introspection_endpoint", Suffixed(authServerUrl, "/oauth/token")),
          Prop("token_introspection_endpoint_auth_methods_supported",
               List(<<Str(<<"client_secret_post">>), Str(<<"client_secret_basic">>)>>)),
          Prop("jwks_uri", Suffixed(authServerUrl, "/.well-known/jwks.json")),
          Prop("authorization_data_types_supported", List(<<Str(<<"oauth_scope">>)>>)),
          Prop("authorization_data_locations_supported",
               List(<<Str(<<"header">>), Str(<<"body">>)>>)),
          Prop("key_challenges_supported",
               List(<<Obj(<<Prop("challenge_type",
                                 Str(<<"urn:ietf:params:oauth:pkce:code_challenge">>)),
                            Prop("challenge_algs", List(<<Str(<<"S256">>)>>))>>)>>))>>),
    properties)

\* ------------------------------------------------------------------------
\* Server Core: the publishable key and the Clerk metadata generator.  A
\* publishable key is a sequence of characters; base64 is decoded six bits
\* at a time and the bytes are turned into characters.
\* ------------------------------------------------------------------------
\* the base64 alphabet, value v at position v + 1
Base64Alphabet ==
   <<"A", "B", "C", "D", "E", "F", "G", "H", "I", "J", "K", "L", "M", "N",
     "O", "P", "Q", "R", "S", "T", "U", "V", "W", "X", "Y", "Z", "a", "b",
     "c", "d", "e", "f", "g", "h", "i", "j", "k", "l", "m", "n", "o", "p",
     "q", "r", "s", "t", "u", "v", "w", "x", "y", "z", "0", "1", "2", "3",
     "4", "5", "6", "7", "8", "9", "+", "/">>
\* the printable ASCII characters, code c at position c - 31 (the grave
\* accent, code 96, by its name)
AsciiPrintable ==
   <<" ", "!", Q, "#", "$", "%", "&", "'", "(", ")", "*", "+", ",", "-",
     ".", "/", "0", "1", "2", "3", "4", "5", "6", "7", "8", "9", ":", ";",
     "<", "=", ">", "?", "@", "A", "B", "C", "D", "E", "F", "G", "H", "I",
     "J", "K", "L", "M", "N", "O", "P", "Q", "R", "S", "T", "U", "V", "W",
     "X", "Y", "Z", "[", BS, "]", "^", "_", "grave", "a", "b", "c", "d", "e",
     "f", "g", "h", "i", "j", "k", "l", "m", "n", "o", "p", "q", "r", "s",
     "t", "u", "v", "w", "x", "y", "z", "{", "|", "}", "~">>

\* the value of a base64 character ("-" and "_" are the URL-safe 62 and 63),
\* -1 for a character outside the alphabet
Base64Value(c) ==
  IF c = "-" THEN 62
  ELSE IF c = "_" THEN 63
  ELSE IF \E i \in 1..64 : Base64Alphabet[i] = c
       THEN (CHOOSE i \in 1..64 : Base64Alphabet[i] = c) - 1
  ELSE -1

\* the sextets of the text up to the first "=", other characters skipped
RECURSIVE Sextets(_, _, _)
Sextets(text, i, acc) ==
  IF i > Len(text) \/ text[i] = "=" THEN acc
  ELSE IF Base64Value(text[i]) < 0 THEN Sextets(text, i + 1, acc)
  ELSE Sextets(text, i + 1, Append(acc, Base64Value(text[i])))

\* four sextets make three bytes, three make two, two make one
RECURSIVE BytesOf(_, _, _)
BytesOf(sx, i, acc) ==
  IF i + 1 > Len(sx) THEN acc
  ELSE LET b1 == (sx[i] * 4 + sx[i + 1] \div 16) % 256
           b2 == IF i + 2 > Len(sx) THEN <<>>
                 ELSE <<((sx[i + 1] % 16) * 16 + sx[i + 2] \div 4) % 256>>
           b3 == IF i + 3 > Len(sx) THEN <<>>
                 ELSE <<((sx[i + 2] % 4) * 64 + sx[i + 3]) % 256>>
       IN BytesOf(sx, i + 4, acc \o <<b1>> \o b2 \o b3)

\* the character of a byte in UTF-8 text made of single bytes: a byte above
\* 127 is no character on its own and becomes the replacement character
FromByte(b) ==
  IF b \in 32..126 THEN AsciiPrintable[b - 31]
  ELSE IF b > 127 THEN "U+FFFD"
  ELSE "control"

\* Buffer.from(text, "base64").toString("utf8")
Base64Decode(text) ==
  LET bytes == BytesOf(Sextets(text, 1, <<>>), 1, <<>>)
  IN [i \in 1..Len(bytes) |-> FromByte(bytes[i])]

\* s.replace(/^pk_(test|live)_/, "")
PkTest == <<"p", "k", "_", "t", "e", "s", "t", "_">>
PkLive == <<"p", "k", "_", "l", "i", "v", "e", "_">>
StartsWith(s, p) == Len(s) >= Len(p) /\ SubSeq(s, 1, Len(p)) = p
replacePkPrefix(s) ==
  IF StartsWith(s, PkTest) \/ StartsWith(s, PkLive)
  THEN SubSeq(s, Len(PkTest) + 1, Len(s))
  ELSE s

\* s.replace(/\$/, ""): the pattern is not anchored and not global, so the
\* first "$" of the text is removed, wherever it is
RECURSIVE IndexOfChar(_, _, _)
IndexOfChar(s, c, i) ==
  IF i > Len(s) THEN 0
  ELSE IF s[i] = c THEN i
  ELSE IndexOfChar(s, c, i + 1)
replaceDollar(s) ==
  LET i == IndexOfChar(s, "$", 1) IN
  IF i = 0 THEN s ELSE SubSeq(s, 1, i - 1) \o SubSeq(s, i + 1, Len(s))

\* undefined has no replace method: reading it is a TypeError
deriveFapiUrl(publishableKey) ==
  IF Tag(publishableKey) # "str" THEN Thrown("TypeError", <<"replace">>)
  ELSE LET key == replacePkPrefix(publishableKey[2])
           decoded == Base64Decode(key)
       IN Str(<<"https://">> \o replaceDollar(decoded))

ClerkDocs == Str(<<"https://", "clerk.com", "/docs">>)

\* the generator whose fixed documentation link is applied last
generateClerkProtectedResourceMetadata_DocsLast(publishableKey, resourceUrl, properties) ==
  LET fapiUrl == deriveFapiUrl(publishableKey)
  IN IF IsThrown(fapiUrl) THEN fapiUrl
     ELSE generateProtectedResourceMetadata(
            fapiUrl, resourceUrl,
            Merged(properties, Obj(<<Prop("service_documentation", ClerkDocs)>>)))

generateClerkProtectedResourceMetadata(publishableKey, resourceUrl, properties) ==
  LET fapiUrl == deriveFapiUrl(publishableKey)
  IN IF IsThrown(fapiUrl) THEN fapiUrl
     ELSE generateProtectedResourceMetadata(
            fapiUrl, resourceUrl,
            Merged(Obj(<<Prop("service_documentation", ClerkDocs)>>), properties))

\* fetchClerkAuthorizationServerMetadata, when the authorization server
\* answers the fetch with the document answer: [out, url]
fetchClerkAuthorizationServerMetadata(publishableKey, answer) ==
  LET fapiUrl == deriveFapiUrl(publishableKey)
  IN IF IsThrown(fapiUrl) THEN [out |-> fapiUrl, url |-> Undef]
     ELSE [out |-> Promise(answer),
           url |-> Suffixed(fapiUrl, "/.well-known/oauth-authorization-server")]

corsHeaders ==
  Obj(<<Prop("Access-Control-Allow-Origin", Str(<<"*">>)),
        Prop("Access-Control-Allow-Methods", Str(<<"GET, OPTIONS">>)),
        Prop("Access-Control-Allow-Headers", Str(<<"*">>)),
        Prop("Access-Control-Max-Age", Str(<<"86400">>))>>)

\* the keys the identity provider issues: a host name followed by "$"
IssuedKeys ==
  {Str(PkTest \o <<"Y", "S", "5", "k", "Z", "X", "Y", "k">>),
   Str(PkLive \o <<"Y", "i", "5", "j", "b", "2", "0", "k">>)}

\* the publishable keys a caller passes, with the text each one encodes
PublishableKeys ==
  {Str(k) : k \in {
   \* pk_test_YS5kZXYk (a.dev$)
   <<"p", "k", "_", "t", "e", "s", "t", "_", "Y", "S", "5", "k", "Z", "X",
     "Y", "k">>,
   \* pk_live_Yi5jb20k (b.com$)
   <<"p", "k", "_", "l", "i", "v", "e", "_", "Y", "i", "5", "j", "b", "2",
     "0", "k">>,
   \* pk_test_YSRiLmRldiQ= (a$b.dev$)
   <<"p", "k", "_", "t", "e", "s", "t", "_", "Y", "S", "R", "i", "L", "m",
     "R", "l", "d", "i", "Q", "=">>,
   \* pk_test_JGEuZGV2 ($a.dev)
   <<"p", "k", "_", "t", "e", "s", "t", "_", "J", "G", "E", "u", "Z", "G",
     "V", "2">>,
   \* pk_test_YS5kZXY= (a.dev)
   <<"p", "k", "_", "t", "e", "s", "t", "_", "Y", "S", "5", "k", "Z", "X",
     "Y", "=">>,
   \* YS5kZXYk (a.dev$)
   <<"Y", "S", "5", "k", "Z", "X", "Y", "k">>,
   \* pk_test_YS5kZXYkJA== (a.dev$$)
   <<"p", "k", "_", "t", "e", "s", "t", "_", "Y", "S", "5", "k", "Z", "X",
     "Y", "k", "J", "A", "=", "=">>,
   \* pk_prod_YS5kZXYk (a.dev$)
   <<"p", "k", "_", "p", "r", "o", "d", "_", "Y", "S", "5", "k", "Z", "X",
     "Y", "k">>
  }}

\* the URLs and properties a caller passes
ServerUrls ==
  {Str(<<"https://", "auth.example.com">>), Str(<<"https://", "auth.example.com", "/">>),
   Str(<<"https://", "res.example.com">>), Str(<<"http://", "localhost:3000", "/mcp">>)}
MetadataProperties ==
  {Undef, Obj(<<>>),
   Obj(<<Prop("service_documentation", Str(<<"https://", "example.com", "/docs">>))>>),
   Obj(<<Prop("resource", Str(<<"https://", "other.example.com">>)),
         Prop("scopes_supported", List(<<Str(<<"read">>)>>))>>),
   Obj(<<Prop("service_documentation", Undef)>>),
   Obj(<<Prop("jwks_uri", Str(<<"https://", "keys.example.com">>)),
         Prop("service_documentation", Str(<<"https://", "example.com", "/docs">>))>>)}

\* what the Server Core leaves alone
ServerFrame == UNCHANGED <<storeVars, clientVars, exchange, backend, suspended>>

Invocation(op, args, v) == [op |-> op, args |-> args, out |-> v.out, reads |-> v.reads]

VerifyClerkToken(auth, token) ==
  /\ invoked' = Invocation("verifyClerkToken", <<auth, token>>,
                           verifyClerkToken(auth, token))
  /\ ServerFrame

NextVerifyClerkToken(auth, token) ==
  /\ invoked' = Invocation("next.verifyClerkToken", <<auth, token>>,
                           Next_verifyClerkToken(auth, token))
  /\ ServerFrame

GenerateProtectedResourceMetadata(authServerUrl, resourceUrl, properties) ==
  /\ invoked' = Invocation("generateProtectedResourceMetadata",
                           <<authServerUrl, resourceUrl, properties>>,
                           Verified(generateProtectedResourceMetadata(
                                      authServerUrl, resourceUrl, properties), <<>>))
  /\ ServerFrame

DeriveFapiUrl(publishableKey) ==
  /\ invoked' = Invocation("deriveFapiUrl", <<publishableKey>>,
                           Verified(deriveFapiUrl(publishableKey), <<>>))
  /\ ServerFrame

GenerateClerkProtectedResourceMetadata(publishableKey, resourceUrl, properties) ==
  /\ invoked' = Invocation("generateClerkProtectedResourceMetadata",
                           <<publishableKey, resourceUrl, properties>>,
                           Verified(generateClerkProtectedResourceMetadata(
                                      publishableKey, resourceUrl, properties), <<>>))
  /\ ServerFrame

ServerNext ==
  \/ \E auth \in AuthObjects \cup {Undef}, token \in BearerTokens :
       VerifyClerkToken(auth, token)
  \/ \E auth \in AuthObjects \cup {Undef}, token \in BearerTokens :
       NextVerifyClerkToken(auth, token)
  \/ \E a \in ServerUrls, r \in ServerUrls, p \in MetadataProperties :
       GenerateProtectedResourceMetadata(a, r, p)
  \/ \E k \in PublishableKeys : DeriveFapiUrl(k)
  \/ \E k \in IssuedKeys, r \in ServerUrls, p \in MetadataProperties :
       GenerateClerkProtectedResourceMetadata(k, r, p)

InitServer == StoreIdle /\ ClientStart("legacy") /\ ServerStart

SpecServer == InitServer /\ [][ServerNext]_vars

\* ------------------------------------------------------------------------
\* Claims about the Server Core
\* ------------------------------------------------------------------------
\* the AuthInfo record built from exactly auth and token
AuthInfoOf(auth, token) ==
  Obj(<<Prop("token", token), Prop("scopes", Field(auth, "scopes")),
        Prop("clientId", Field(auth, "clientId")),
        Prop("extra", Obj(<<Prop("userId", Field(auth, "userId"))>>))>>)

\* C18: verifyClerkToken(auth, token) with no token (undefined or the empty
\* string) returns undefined without reading any field of auth; with a token
\* it returns undefined when auth.isAuthenticated is false, otherwise throws
\* when auth.tokenType is not "oauth_token", otherwise returns undefined when
\* clientId, scopes or userId is missing, and otherwise returns
\* {token, scopes, clientId, extra: {userId}} built from exactly those inputs.
C18_VerifyClerkToken ==
  invoked.op = "verifyClerkToken" =>
    \E auth \in {invoked.args[1]}, token \in {invoked.args[2]} :
      IF Falsy(token) THEN invoked.out = Undef /\ invoked.reads = <<>>
      ELSE Tag(auth) = "obj" =>
        IF Field(auth, "isAuthenticated") = Bool(FALSE) THEN invoked.out = Undef
        ELSE IF Field(auth, "tokenType") # Str(<<"oauth_token">>)
        THEN IsThrown(invoked.out)
        ELSE IF Undef \in {Field(auth, "clientId"), Field(auth, "scopes"),
                           Field(auth, "userId")}
        THEN invoked.out = Undef
        ELSE invoked.out = AuthInfoOf(auth, token)

C18_Witness ==
  /\ invoked.op = "verifyClerkToken"
  /\ invoked.args = <<Undef, Undef>>
  /\ invoked.out = Undef

\* C19: the Next adapter's verifyClerkToken and the server core's are
\* identical for the caller: on every (auth, token) both return the same
\* value or both throw the same error.
C19_NextVerifyClerkTokenIdentical ==
  invoked.op = "next.verifyClerkToken"
    => invoked.out = verifyClerkToken(invoked.args[1], invoked.args[2]).out

\* C20: generateProtectedResourceMetadata({authServerUrl: A, resourceUrl: R})
\* without properties returns resource = R, authorization_servers = [A],
\* jwks_uri = A + "/.well-known/jwks.json", token_introspection_endpoint =
\* A + "/oauth/token" and the six fixed fields of the documented shape, and
\* nothing else.
C20_MetadataShape ==
  (invoked.op = "generateProtectedResourceMetadata" /\ invoked.args[3] = Undef)
    => \E A \in {invoked.args[1]}, R \in {invoked.args[2]}, m \in {invoked.out} :
         /\ Tag(m) = "obj" /\ Len(m[2]) = 9
         /\ Field(m, "resource") = R
         /\ Field(m, "authorization_servers") = List(<<A>>)
         /\ Field(m, "jwks_uri") = Str(A[2] \o <<"/.well-known/jwks.json">>)
         /\ Field(m, "token_introspection_endpoint") = Str(A[2] \o <<"/oauth/token">>)
         /\ Field(m, "token_types_supported")
              = List(<<Str(<<"urn:ietf:params:oauth:token-type:access_token">>)>>)
         /\ Field(m, "token_introspection_endpoint_auth_methods_supported")
              = List(<<Str(<<"client_secret_post">>), Str(<<"client_secret_basic">>)>>)
         /\ Field(m, "authorization_data_types_supported")
              = List(<<Str(<<"oauth_scope">>)>>)
         /\ Field(m, "authorization_data_locations_supported")
              = List(<<Str(<<"header">>), Str(<<"body">>)>>)
         /\ Field(m, "key_challenges_supported")
              = List(<<Obj(<<Prop("challenge_type",
                                  Str(<<"urn:ietf:params:oauth:pkce:code_challenge">>)),
                             Prop("challenge_algs", List(<<Str(<<"S256">>)>>))>>)>>)

C20_Witness ==
  /\ invoked.op = "generateProtectedResourceMetadata"
  /\ invoked.args = <<Str(<<"https://", "auth.example.com">>),
                      Str(<<"https://", "res.example.com">>), Undef>>
  /\ Field(invoked.out, "jwks_uri")
       = Str(<<"https://", "auth.example.com", "/.well-known/jwks.json">>)

\* the properties of a that b does not name are in out as they are in a
OthersUnchanged(a, b, out) ==
  \A i \in 1..Len(a[2]) :
    ~HasProp(b, a[2][i][1]) => GetProp(out, a[2][i][1]) = a[2][i][2]

\* every property of p is in out with p's value
AllApplied(p, out) ==
  \A i \in 1..Len(p[2]) :
    HasProp(out, p[2][i][1]) /\ GetProp(out, p[2][i][1]) = p[2][i][2]

\* C21: in generateProtectedResourceMetadata every property the caller
\* supplies overrides the generated field of the same name and every other
\* generated field is as it is without properties; in
\* generateClerkProtectedResourceMetadata service_documentation is
\* "https://clerk.com/docs" unless the caller's properties contain
\* service_documentation, and then it is the caller's value.
C21_CallerPropertiesWin ==
  /\ (invoked.op = "generateProtectedResourceMetadata" /\ Tag(invoked.args[3]) = "obj")
       => /\ AllApplied(invoked.args[3], invoked.out)
          /\ OthersUnchanged(
               generateProtectedResourceMetadata(invoked.args[1], invoked.args[2], Undef),
               invoked.args[3], invoked.out)
  /\ invoked.op = "generateClerkProtectedResourceMetadata"
       => /\ Tag(invoked.args[3]) = "obj" => AllApplied(invoked.args[3], invoked.out)
          /\ HasProp(invoked.out, <<"service_documentation">>)
          /\ Field(invoked.out, "service_documentation")
               = IF HasProp(invoked.args[3], <<"service_documentation">>)
                 THEN Field(invoked.args[3], "service_documentation")
                 ELSE ClerkDocs

C21_Witness ==
  /\ invoked.op = "generateClerkProtectedResourceMetadata"
  /\ Field(invoked.args[3], "jwks_uri") = Str(<<"https://", "keys.example.com">>)
  /\ Field(invoked.out, "jwks_uri") = Str(<<"https://", "keys.example.com">>)
  /\ Field(invoked.out, "service_documentation")
       = Str(<<"https://", "example.com", "/docs">>)
  /\ Field(invoked.out, "resource") = invoked.args[2]

\* the text without its last character when that character is "$"
WithoutTrailingDollar(s) ==
  IF Len(s) > 0 /\ s[Len(s)] = "$" THEN SubSeq(s, 1, Len(s) - 1) ELSE s

\* the key without a leading pk_test_ or pk_live_
WithoutKeyPrefix(s) ==
  IF Len(s) >= 8 /\ (SubSeq(s, 1, 8) = PkTest \/ SubSeq(s, 1, 8) = PkLive)
  THEN SubSeq(s, 9, Len(s)) ELSE s

\* C22: deriveFapiUrl strips a leading pk_test_ or pk_live_ from the
\* publishable key, base64-decodes the rest, strips a trailing "$" from
\* the decoded text and no other character, and prepends "https://".
C22_DeriveFapiUrl ==
  invoked.op = "deriveFapiUrl"
    => invoked.out
         = Str(<<"https://">>
               \o WithoutTrailingDollar(Base64Decode(WithoutKeyPrefix(invoked.args[1][2]))))

\* ------------------------------------------------------------------------
\* Framework adapters: the auth gates.  A gate handles one request; the
\* exchange records what the gate did with it: the calls of the verification
\* with their results (asked), the response it sent (status 0: none), how
\* often it invoked the downstream handler (nexts), the auth it attached
\* and the error that left it (failure).
\* ------------------------------------------------------------------------
\* s.split(sep)
RECURSIVE SplitFrom(_, _, _, _)
SplitFrom(text, sep, i, cur) ==
  IF i > Len(text) THEN <<Str(cur)>>
  ELSE IF text[i] = sep THEN <<Str(cur)>> \o SplitFrom(text, sep, i + 1, <<>>)
  ELSE SplitFrom(text, sep, i + 1, Append(cur, text[i]))

split(s, sep) == List(SplitFrom(s[2], sep, 1, <<>>))

\* list[i], counted from 0: undefined beyond the end
At(list, i) == IF i + 1 <= Len(list[2]) THEN list[2][i + 1] ELSE Undef

\* s.toLowerCase()
toLowerCase(s) ==
  Str([i \in 1..Len(s[2]) |->
         IF s[2][i] \in {"Bearer", "BEARER"} THEN "bearer" ELSE s[2][i]])

\* the request: its Authorization header, its URL, and the authentication
\* state the identity provider's middleware derived for it
Request(authorization, clerk) ==
  [authorization |-> authorization, protocol |-> "https", host |-> "api.example.com",
   originalUrl |-> <<"/mcp">>, clerk |-> clerk, env |-> Obj(<<>>)]

AuthorizationHeaders ==
  {Undef, Str(<<>>), Str(<<"Bearer", " ", "tok1">>), Str(<<"BEARER", " ", "tok1">>),
   Str(<<"Basic", " ", "abc">>), Str(<<"Bearer">>), Str(<<"Bearer", " ">>)}

\* what a caller-supplied verifyToken resolves to, or the error it throws
VerifyResults ==
  {Bool(FALSE), Undef, Null, Bool(TRUE), Obj(<<Prop("sub", Str(<<"u1">>))>>),
   Thrown("VerifyFailed", Undef)}

Unauthorized == Obj(<<Prop("error", Str(<<"Unauthorized">>))>>)
JsonHeaders == Obj(<<Prop("Content-Type", Str(<<"application/json">>))>>)

Handling(req) == [NoExchange EXCEPT !.req = req]

\* express: getOrigin(req)
getOrigin(req) == Str(<<req.protocol, "://", req.host>> \o req.originalUrl)

\* next: new URL(req.url).origin
URLOrigin(req) == Str(<<req.protocol, "://", req.host>>)

\* hono: getPRMUrl(c.req.raw)
getPRMUrl(req) ==
  Str(<<req.protocol, "://", req.host, "/.well-known/oauth-protected-resource">>
      \o req.originalUrl)

\* the middleware without the return in front of the 401
mcpAuth_NoReturn(v, req) ==
  IF Falsy(req.authorization) THEN [Handling(req) EXCEPT !.status = 401, !.nexts = 1]
  ELSE LET token == At(split(req.authorization, " "), 1) IN
       [Handling(req) EXCEPT !.asked = <<<<token, v>>>>,
                             !.status = IF Falsy(v) THEN 401 ELSE 0,
                             !.auth = v, !.nexts = 1]

\* express: the middleware mcpAuth(verifyToken) returns, on a request for
\* which verifyToken(token, req) resolves to v (or throws v)
mcpAuth(v, req) ==
  IF Falsy(req.authorization)
  THEN [Handling(req) EXCEPT
          !.status = 401,
          !.headers = Obj(<<Prop("WWW-Authenticate",
                                 Str(<<"Bearer", " ", "resource_metadata=">>
                                     \o getOrigin(req)[2]
                                     \o <<"/.well-known/oauth-protected-resource">>))>>)]
  ELSE Only({IF Falsy(token)
             THEN [Handling(req) EXCEPT
                     !.failure = Thrown("InvalidAuthorizationHeader", req.authorization)]
             ELSE IF IsThrown(v)
             THEN [Handling(req) EXCEPT !.asked = <<<<token, v>>>>, !.failure = v]
             ELSE IF Falsy(v)
             THEN [Handling(req) EXCEPT !.asked = <<<<token, v>>>>, !.status = 401,
                                       !.headers = JsonHeaders, !.body = Unauthorized]
             ELSE [Handling(req) EXCEPT !.asked = <<<<token, v>>>>, !.auth = v,
                                       !.nexts = 1] :
               token \in {At(split(req.authorization, " "), 1)}})

\* the verifyToken that hands the authentication state to verifyClerkToken
mcpAuthClerk_verifyToken_Normalized(req) ==
  verifyClerkToken(req.clerk, At(split(req.authorization, " "), 1)).out

\* express: the verifyToken of mcpAuthClerk: getAuth(req), false when it is
\* not authenticated
mcpAuthClerk_verifyToken(req) ==
  IF Falsy(Field(req.clerk, "isAuthenticated")) THEN Bool(FALSE) ELSE req.clerk

\* express: mcpAuthClerk
Express_mcpAuthClerk(req) == mcpAuth(mcpAuthClerk_verifyToken(req), req)

\* the handler that answers a bare 401 to a request without credentials
createMcpAuthHandler_NoChallenge(v, req) ==
  IF Falsy(req.authorization) THEN [Handling(req) EXCEPT !.status = 401]
  ELSE mcpAuth(v, req)

\* next: the handler createMcpAuthHandler(handler, verifyToken) returns
createMcpAuthHandler(v, req) ==
  IF Falsy(req.authorization)
  THEN [Handling(req) EXCEPT
          !.status = 401,
          !.headers = Obj(<<Prop("WWW-Authenticate",
                                 Str(<<"Bearer", " ", "resource_metadata=">>
                                     \o URLOrigin(req)[2]
                                     \o <<"/.well-known/oauth-protected-resource">>))>>)]
  ELSE Only({IF Falsy(token)
             THEN [Handling(req) EXCEPT
                     !.failure = Thrown("InvalidAuthorizationHeader", req.authorization)]
             ELSE IF IsThrown(v)
             THEN [Handling(req) EXCEPT !.asked = <<<<token, v>>>>, !.failure = v]
             ELSE IF Falsy(v)
             THEN [Handling(req) EXCEPT !.asked = <<<<token, v>>>>, !.status = 401,
                                       !.headers = JsonHeaders, !.body = Unauthorized]
             ELSE [Handling(req) EXCEPT !.asked = <<<<token, v>>>>, !.nexts = 1] :
               token \in {At(split(req.authorization, " "), 1)}})

\* the middleware without its try/catch
Hono_mcpAuthClerk_NoCatch(v, req) ==
  LET parts == IF Tag(req.authorization) = "str" THEN split(req.authorization, " ")
               ELSE List(<<>>)
      type == At(parts, 0)
      token == At(parts, 1)
      bearerToken == IF Tag(type) = "str" /\ toLowerCase(type) = Str(<<"bearer">>)
                     THEN token ELSE Undef
  IN    IF Falsy(bearerToken)
        THEN [Handling(req) EXCEPT
                !.status = 401,
                !.headers =
                  Obj(<<Prop("WWW-Authenticate",
                             Str(<<"Bearer", " ", "resource_metadata=", Q>>
                                 \o getPRMUrl(req)[2] \o <<Q>>)),
                        Prop("Content-Type", Str(<<"application/json">>))>>),
                !.body = Unauthorized]
        ELSE IF IsThrown(v)
        THEN [Handling(req) EXCEPT !.failure = v]
        ELSE LET a == verifyClerkToken(v, token) IN
               IF IsThrown(a.out)
               THEN [Handling(req) EXCEPT !.asked = <<<<token, a.out>>>>,
                                         !.failure = a.out]
               ELSE IF Falsy(a.out)
               THEN [Handling(req) EXCEPT !.asked = <<<<token, a.out>>>>, !.status = 401,
                                         !.headers = JsonHeaders, !.body = Unauthorized]
               ELSE [Handling(req) EXCEPT !.asked = <<<<token, a.out>>>>,
                                         !.auth = a.out, !.nexts = 1]

\* hono: mcpAuthClerk, on a request for which authenticateRequest(...).toAuth()
\* gives v (or throws v)
Hono_mcpAuthClerk(v, req) ==
  LET parts == IF Tag(req.authorization) = "str" THEN split(req.authorization, " ")
               ELSE List(<<>>)
      type == At(parts, 0)
      token == At(parts, 1)
      bearerToken == IF Tag(type) = "str" /\ toLowerCase(type) = Str(<<"bearer">>)
                     THEN token ELSE Undef
  IN    IF Falsy(bearerToken)
        THEN [Handling(req) EXCEPT
                !.status = 401,
                !.headers =
                  Obj(<<Prop("WWW-Authenticate",
                             Str(<<"Bearer", " ", "resource_metadata=", Q>>
                                 \o getPRMUrl(req)[2] \o <<Q>>)),
                        Prop("Content-Type", Str(<<"application/json">>))>>),
                !.body = Unauthorized]
        ELSE IF IsThrown(v)
        THEN [Handling(req) EXCEPT
                !.status = 500, !.headers = JsonHeaders,
                !.body = Obj(<<Prop("error", Str(<<"Internal Server Error">>))>>)]
        ELSE LET a == verifyClerkToken(v, token) IN
               IF IsThrown(a.out)
               THEN [Handling(req) EXCEPT
                       !.asked = <<<<token, a.out>>>>,
                       !.status = 500, !.headers = JsonHeaders,
                       !.body = Obj(<<Prop("error", Str(<<"Internal Server Error">>))>>)]
               ELSE IF Falsy(a.out)
               THEN [Handling(req) EXCEPT !.asked = <<<<token, a.out>>>>, !.status = 401,
                                         !.headers = JsonHeaders, !.body = Unauthorized]
               ELSE [Handling(req) EXCEPT !.asked = <<<<token, a.out>>>>,
                                         !.auth = a.out, !.nexts = 1]

\* ------------------------------------------------------------------------
\* Framework adapters: the Clerk metadata handlers, which take the
\* publishable key from the process environment
\* ------------------------------------------------------------------------
\* process.env.NAME: undefined when the variable is not set
Env(req, name) == Field(req.env, name)

MetadataHeaders ==
  ObjectAssign(Obj(<<Prop("Cache-Control", Str(<<"max-age=3600">>)),
                     Prop("Content-Type", Str(<<"application/json">>))>>),
               corsHeaders)

\* express: protectedResourceHandlerClerk(req, res)
Express_protectedResourceHandlerClerk(req) ==
  LET metadata == generateClerkProtectedResourceMetadata(
                    Env(req, "CLERK_PUBLISHABLE_KEY"), getOrigin(req), Undef)
  IN IF IsThrown(metadata) THEN [Handling(req) EXCEPT !.failure = metadata]
     ELSE [Handling(req) EXCEPT !.status = 200, !.headers = JsonHeaders,
                               !.body = metadata]

\* next: the handler protectedResourceHandlerClerk(properties) returns
Next_protectedResourceHandlerClerk(properties, req) ==
  LET metadata == generateClerkProtectedResourceMetadata(
                    Env(req, "NEXT_PUBLIC_CLERK_PUBLISHABLE_KEY"), URLOrigin(req),
                    properties)
  IN IF IsThrown(metadata) THEN [Handling(req) EXCEPT !.failure = metadata]
     ELSE [Handling(req) EXCEPT !.status = 200, !.headers = MetadataHeaders,
                               !.body = metadata]

\* next: the handler authServerMetadataHandlerClerk() returns, when the
\* authorization server answers with the document answer
Next_authServerMetadataHandlerClerk(answer, req) ==
  LET f == fetchClerkAuthorizationServerMetadata(
             Env(req, "NEXT_PUBLIC_CLERK_PUBLISHABLE_KEY"), answer)
  IN IF IsThrown(f.out) THEN [Handling(req) EXCEPT !.failure = f.out]
     ELSE [Handling(req) EXCEPT !.asked = <<<<f.url, answer>>>>,
                               !.status = 200, !.headers = MetadataHeaders,
                               !.body = answer]

\* the environments of a deployment: nothing set, one name set, both set,
\* a variable set to the empty text
Environments ==
  {Obj(<<>>)}
  \cup {Obj(<<Prop(n, k)>>) :
          n \in {"CLERK_PUBLISHABLE_KEY", "NEXT_PUBLIC_CLERK_PUBLISHABLE_KEY"},
          k \in IssuedKeys \cup {Str(<<>>)}}
  \cup {Obj(<<Prop("CLERK_PUBLISHABLE_KEY", k),
              Prop("NEXT_PUBLIC_CLERK_PUBLISHABLE_KEY", k)>>) : k \in IssuedKeys}

\* what the authorization server publishes about itself
ServerDocuments ==
  {Obj(<<Prop("issuer", Str(<<"https://", "a", ".", "d", "e", "v">>))>>)}

\* the paths under which the metadata handlers are mounted
MetadataPaths ==
  {<<"/.well-known/oauth-protected-resource">>,
   <<"/.well-known/oauth-protected-resource", "/mcp">>}

MetadataRequest(e, path) ==
  [Request(Undef, Undef) EXCEPT !.env = e, !.originalUrl = path]

\* express: the handler protectedResourceHandler({authServerUrl, properties})
\* returns
Express_protectedResourceHandler(authServerUrl, properties, req) ==
  [Handling(req) EXCEPT
     !.status = 200, !.headers = JsonHeaders,
     !.body = generateProtectedResourceMetadata(authServerUrl, getOrigin(req), properties)]

\* next: the handler protectedResourceHandler({authServerUrl}) returns
Next_protectedResourceHandler(authServerUrl, req) ==
  [Handling(req) EXCEPT
     !.status = 200, !.headers = MetadataHeaders,
     !.body = generateProtectedResourceMetadata(authServerUrl, URLOrigin(req), Undef)]

\* what a gate leaves alone
GateFrame == UNCHANGED <<storeVars, clientVars, invoked, backend, suspended>>

McpAuth(authorization, v) ==
  /\ exchange' = [mcpAuth(v, Request(authorization, Undef))
                    EXCEPT !.adapter = "express.mcpAuth"]
  /\ GateFrame

McpAuthClerk(authorization, clerk) ==
  /\ exchange' = [Express_mcpAuthClerk(Request(authorization, clerk))
                    EXCEPT !.adapter = "express.mcpAuthClerk"]
  /\ GateFrame

CreateMcpAuthHandler(authorization, v) ==
  /\ exchange' = [createMcpAuthHandler(v, Request(authorization, Undef))
                    EXCEPT !.adapter = "next.createMcpAuthHandler"]
  /\ GateFrame

HonoMcpAuthClerk(authorization, v) ==
  /\ exchange' = [Hono_mcpAuthClerk(v, Request(authorization, v))
                    EXCEPT !.adapter = "hono.mcpAuthClerk"]
  /\ GateFrame

GateNext ==
  \/ \E h \in AuthorizationHeaders, v \in VerifyResults : McpAuth(h, v)
  \/ \E h \in AuthorizationHeaders, clerk \in AuthObjects : McpAuthClerk(h, clerk)
  \/ \E h \in AuthorizationHeaders, v \in VerifyResults : CreateMcpAuthHandler(h, v)
  \/ \E h \in AuthorizationHeaders,
          v \in AuthObjects \cup {Undef, Thrown("AuthenticateRequestFailed", Undef)} :
       HonoMcpAuthClerk(h, v)

ExpressProtectedResourceHandler(authServerUrl, properties, path) ==
  /\ exchange' = [Express_protectedResourceHandler(
                     authServerUrl, properties, MetadataRequest(Obj(<<>>), path))
                    EXCEPT !.adapter = "express.protectedResourceHandler"]
  /\ GateFrame

NextProtectedResourceHandler(authServerUrl, path) ==
  /\ exchange' = [Next_protectedResourceHandler(
                     authServerUrl, MetadataRequest(Obj(<<>>), path))
                    EXCEPT !.adapter = "next.protectedResourceHandler"]
  /\ GateFrame

ExpressProtectedResourceHandlerClerk(e, path) ==
  /\ exchange' = [Express_protectedResourceHandlerClerk(MetadataRequest(e, path))
                    EXCEPT !.adapter = "express.protectedResourceHandlerClerk"]
  /\ GateFrame

NextProtectedResourceHandlerClerk(e, properties, path) ==
  /\ exchange' = [Next_protectedResourceHandlerClerk(properties, MetadataRequest(e, path))
                    EXCEPT !.adapter = "next.protectedResourceHandlerClerk"]
  /\ GateFrame

NextAuthServerMetadataHandlerClerk(e, answer) ==
  /\ exchange' = [Next_authServerMetadataHandlerClerk(
                     answer, MetadataRequest(e, <<"/.well-known/oauth-authorization-server">>))
                    EXCEPT !.adapter = "next.authServerMetadataHandlerClerk"]
  /\ GateFrame

MetadataNext ==
  \/ \E a \in ServerUrls, p \in MetadataProperties, path \in MetadataPaths :
       ExpressProtectedResourceHandler(a, p, path)
  \/ \E a \in ServerUrls, path \in MetadataPaths : NextProtectedResourceHandler(a, path)
  \/ \E e \in Environments, path \in MetadataPaths :
       ExpressProtectedResourceHandlerClerk(e, path)
  \/ \E e \in Environments, p \in MetadataProperties, path \in MetadataPaths :
       NextProtectedResourceHandlerClerk(e, p, path)
  \/ \E e \in Environments, a \in ServerDocuments :
       NextAuthServerMetadataHandlerClerk(e, a)

InitMetadata == StoreIdle /\ ClientStart("legacy") /\ ServerStart

SpecMetadata == InitMetadata /\ [][MetadataNext]_vars

InitGate == StoreIdle /\ ClientStart("legacy") /\ ServerStart

SpecGate == InitGate /\ [][GateNext]_vars

\* ------------------------------------------------------------------------
\* Claims about the auth gates
\* ------------------------------------------------------------------------
\* the response carries a WWW-Authenticate header with resource_metadata=
HasChallenge ==
  /\ Tag(Field(exchange.headers, "WWW-Authenticate")) = "str"
  /\ "resource_metadata=" \in SeqRange(Field(exchange.headers, "WWW-Authenticate")[2])

\* the token in the request's Authorization header
HeaderToken == At(split(exchange.req.authorization, " "), 1)

\* C15: in every gate a request with no Authorization header gets 401 with
\* a WWW-Authenticate header containing resource_metadata=, and the
\* downstream handler is not invoked.
C15_NoHeaderChallenged ==
  (exchange.adapter # "none" /\ exchange.req.authorization = Undef)
    => /\ exchange.status = 401
       /\ HasChallenge
       /\ exchange.nexts = 0
       /\ exchange.asked = <<>>

C15_Witness ==
  /\ exchange.adapter = "hono.mcpAuthClerk"
  /\ exchange.req.authorization = Undef
  /\ exchange.status = 401

\* C16: in every gate, when a credential is supplied and its verification
\* gives a falsy result, the response is 401 with the WWW-Authenticate
\* challenge, as when no credential is supplied.
C16_FailedVerificationChallenged ==
  (Len(exchange.asked) = 1 /\ Falsy(exchange.asked[1][2]))
    => exchange.status = 401 /\ HasChallenge

\* C17: in every gate the downstream handler is invoked at most once, and
\* only when the verification was asked about the token of the request's
\* Authorization header and gave a truthy result; then the gate has sent no
\* response, and in the Express and Hono gates that result is attached as
\* auth.
C17_DownstreamOnlyWhenVerified ==
  /\ exchange.nexts <= 1
  /\ exchange.nexts = 1
       => /\ Len(exchange.asked) = 1
          /\ exchange.asked[1][1] = HeaderToken
          /\ ~Falsy(exchange.asked[1][2]) /\ ~IsThrown(exchange.asked[1][2])
          /\ exchange.status = 0 /\ exchange.failure = Undef
          /\ exchange.adapter # "next.createMcpAuthHandler"
               => exchange.auth = exchange.asked[1][2]

C17_Witness ==
  /\ exchange.adapter = "express.mcpAuthClerk"
  /\ exchange.nexts = 1
  /\ exchange.req.authorization = Str(<<"Bearer", " ", "tok1">>)
  /\ exchange.auth = exchange.req.clerk

\* the scheme of the request's Authorization header in lower case, absent
\* when there is no header
HeaderScheme ==
  IF Tag(exchange.req.authorization) # "str" THEN Undef
  ELSE IF Tag(At(split(exchange.req.authorization, " "), 0)) # "str" THEN Undef
  ELSE toLowerCase(At(split(exchange.req.authorization, " "), 0))

\* authenticating the request raises an exception: in authenticateRequest
\* or in verifyClerkToken
AuthenticationThrows ==
  \/ IsThrown(exchange.req.clerk)
  \/ IsThrown(verifyClerkToken(exchange.req.clerk, HeaderToken).out)

ExpressClerkToken ==
  /\ exchange.adapter = "express.mcpAuthClerk"
  /\ Tag(exchange.req.authorization) = "str"
  /\ ~Falsy(HeaderToken)

\* C33 as stated: on success the Express mcpAuthClerk middleware attaches to
\* req.auth the normalized AuthInfo that verifyClerkToken produces ({token,
\* scopes, clientId, extra: {userId}}), and whenever verifyClerkToken would
\* yield undefined the request gets the generic 401 and next is not called.
C33_ExpressAttachesAuthInfo ==
  ExpressClerkToken =>
    /\ exchange.nexts = 1
         => exchange.auth = verifyClerkToken(exchange.req.clerk, HeaderToken).out
    /\ verifyClerkToken(exchange.req.clerk, HeaderToken).out = Undef
         => exchange.status = 401 /\ exchange.nexts = 0

\* C33 as the code has it: for a request whose Authorization header carries
\* a token, the Express mcpAuthClerk middleware attaches to req.auth the
\* authentication object getAuth returned, as it is, and calls next once
\* without responding when that object is authenticated; when it is not
\* authenticated the request gets the generic 401 and next is not called.
\* verifyClerkToken is not consulted.
C33_ExpressAttachesClerkAuth ==
  ExpressClerkToken =>
    IF Falsy(Field(exchange.req.clerk, "isAuthenticated"))
    THEN /\ exchange.status = 401
         /\ exchange.body = Unauthorized
         /\ exchange.nexts = 0
         /\ exchange.auth = NoExchange.auth
    ELSE /\ exchange.nexts = 1
         /\ exchange.status = 0
         /\ exchange.failure = Undef
         /\ exchange.auth = exchange.req.clerk

\* an authenticated request without a clientId: verifyClerkToken would yield
\* undefined, the middleware lets it through with Clerk's auth data
C33_Witness ==
  /\ ExpressClerkToken
  /\ verifyClerkToken(exchange.req.clerk, HeaderToken).out = Undef
  /\ Field(exchange.req.clerk, "tokenType") = Str(<<"oauth_token">>)
  /\ exchange.nexts = 1
  /\ exchange.auth = exchange.req.clerk

\* the environment variable a Clerk metadata handler reads
KeyVariable ==
  IF exchange.adapter = "express.protectedResourceHandlerClerk"
  THEN "CLERK_PUBLISHABLE_KEY" ELSE "NEXT_PUBLIC_CLERK_PUBLISHABLE_KEY"

ClerkMetadataHandlers ==
  {"express.protectedResourceHandlerClerk", "next.protectedResourceHandlerClerk",
   "next.authServerMetadataHandlerClerk"}

\* C25: when the publishable-key environment variable is absent, the Clerk
\* metadata handlers of the Express and Next adapters fail with a
\* configuration error whose message names the missing variable, and
\* never answer from a fallback.
C25_MissingKeyNamed ==
  (exchange.adapter \in ClerkMetadataHandlers
     /\ ~HasProp(exchange.req.env, <<KeyVariable>>))
    => /\ exchange.status = 0
       /\ IsThrown(exchange.failure)
       /\ KeyVariable \in SeqRange(exchange.failure[3])

\* the request's URL without the well-known metadata path segment
ResourceUrlOf(req) ==
  Str(<<req.protocol, "://", req.host>>
      \o SelectSeq(req.originalUrl,
                   LAMBDA s : s # "/.well-known/oauth-protected-resource"))

\* the resource the caller's properties put in place of the computed one
CallerResource ==
  {Field(p, "resource") : p \in {q \in MetadataProperties : HasProp(q, <<"resource">>)}}

\* C34: the resource field of the metadata the Express
\* protectedResourceHandler serves is the externally visible resource URL,
\* the request's URL with the well-known metadata path segment taken out,
\* under every path the handler is mounted at (unless the caller's
\* properties name a resource).
C34_ExpressResourceUrl ==
  (/\ exchange.adapter = "express.protectedResourceHandler"
   /\ Field(exchange.body, "resource") \notin CallerResource)
    => Field(exchange.body, "resource") = ResourceUrlOf(exchange.req)

\* ------------------------------------------------------------------------
\* Store adapters: the connection and the statistics.  createRedisStore
\* and createPostgresStore start connecting when the adapter is created
\* and keep the promise; an operation is an async function that is
\* suspended at its await until the promise is settled.
\* ------------------------------------------------------------------------
\* how many operations are called on one adapter before it is disconnected
MaxIssued == 2

\* the operations that start with `await connectionPromise` (Redis) or
\* `await initPromise` (PostgreSQL)
AwaitingOps == {"write", "read", "delete", "exists", "keys", "cleanup", "stats"}

Adapter(name, promise) == [NoBackend EXCEPT !.adapter = name, !.promise = promise]

Issued(b, op) == [b EXCEPT !.issued = Append(b.issued, [op |-> op, promise |-> b.promise])]

Settled(op, failAt, value) == [op |-> op, failAt |-> failAt, value |-> value]

\* parseInt(s) of a text of digits
parseInt(s) ==
  IF s[2] # <<>> /\ IsDigit(s[2][1]) THEN ParseDigits(s[2], 0)[2] ELSE <<"nan">>

\* what the backends answer when a statistics query succeeds
CountAnswer == Str(<<"2">>)
SizeAnswer == Str(<<"16 kB">>)
VersionAnswer == <<"PostgreSQL ", "16.1", " on x86_64-pc-linux-gnu">>
KeysAnswer == List(<<Str(<<"mcp:", "k1">>), Str(<<"mcp:", "k2">>)>>)
MemoryAnswer == <<"used_memory:", "1048576", "used_memory_human:", "1.00M">>
ServerAnswer == <<"redis_version:", "7.2.4", "redis_mode:", "standalone">>

\* text.match(/label([^\r\n]+)/): the field that follows the label, absent
\* when the label does not occur
RECURSIVE MatchAfter(_, _, _)
MatchAfter(text, label, i) ==
  IF i >= Len(text) THEN Undef
  ELSE IF text[i] = label THEN Str(<<text[i + 1]>>)
  ELSE MatchAfter(text, label, i + 1)

StatsOf(a, b, c, x, y, z) == Obj(<<Prop(a, x), Prop(b, y), Prop(c, z)>>)

\* createPostgresStore.stats after initPromise, when the failAt-th of its
\* three queries fails (0: none fails): the first failure ends the try block
PgStats(failAt) ==
  LET totalKeys == IF failAt = 1 THEN Num(0) ELSE parseInt(CountAnswer)
      tableSize == IF failAt \in {1, 2} THEN Str(<<"N/A">>) ELSE SizeAnswer
      match == IF failAt \in {1, 2, 3} THEN Undef
               ELSE MatchAfter(VersionAnswer, "PostgreSQL ", 1)
      dbInfo == IF Falsy(match) THEN Str(<<"N/A">>)
                ELSE Str(<<"PostgreSQL ">> \o match[2])
  IN StatsOf("totalKeys", "tableSize", "dbInfo", totalKeys, tableSize, dbInfo)

\* createRedisStore.stats after connectionPromise: KEYS is sent before the
\* try block, the two INFO commands inside it
RedisStats(failAt) ==
  IF failAt = 1 THEN Thrown("CommandFailed", <<"KEYS">>)
  ELSE LET memoryMatch == IF failAt = 2 THEN Undef
                          ELSE MatchAfter(MemoryAnswer, "used_memory_human:", 1)
           versionMatch == IF failAt \in {2, 3} THEN Undef
                           ELSE MatchAfter(ServerAnswer, "redis_version:", 1)
       IN StatsOf("totalKeys", "memoryUsage", "redisInfo",
                  Num(Len(KeysAnswer[2])),
                  IF Falsy(memoryMatch) THEN Str(<<"N/A">>) ELSE memoryMatch,
                  IF Falsy(versionMatch) THEN Str(<<"N/A">>)
                  ELSE Str(<<"Redis ">> \o versionMatch[2]))

\* createSqliteStore.stats: two statements and no try block
SqliteStats(failAt) ==
  IF failAt = 1 THEN Thrown("SqliteError", <<"SELECT COUNT(*)">>)
  ELSE IF failAt = 2 THEN Thrown("SqliteError", <<"page_count * page_size">>)
  ELSE StatsOf("totalKeys", "dbSize", "dbPath",
               Num(2), Str(<<"16.00", " KB">>), Str(<<"./mcp-sessions.db">>))

\* createFsStore.stats on a file that holds two keys: reading the file
\* fails (1: the store is started afresh as {}), or the stat call fails
\* (2), or the file can be neither read nor rewritten (3)
FsStats(failAt) ==
  IF failAt = 3 THEN Thrown("EACCES", <<"writeFile">>)
  ELSE StatsOf("totalKeys", "fileSize", "filePath",
               IF failAt = 1 THEN Num(0) ELSE Num(2),
               IF failAt = 2 THEN Str(<<"0 B">>)
               ELSE IF failAt = 1 THEN Str(<<"2", " B">>) ELSE Str(<<"210", " B">>),
               Str(<<"/tmp/__mcp_demo">>))

\* how many steps of stats() can fail
StatsSteps(adapter) == IF adapter = "sqlite" THEN 2 ELSE 3

stats(adapter, failAt) ==
  CASE adapter = "pg" -> PgStats(failAt)
    [] adapter = "redis" -> RedisStats(failAt)
    [] adapter = "sqlite" -> SqliteStats(failAt)
    [] OTHER -> FsStats(failAt)

BackendFrame == UNCHANGED <<storeVars, clientVars, invoked, exchange, suspended>>

\* createRedisStore(config): redis.connect() is called at once
CreateRedisStore ==
  /\ backend' = Adapter("redis", "pending")
  /\ BackendFrame

\* createPostgresStore(config): the initialization starts at once
CreatePostgresStore ==
  /\ backend' = Adapter("pg", "pending")
  /\ BackendFrame

\* createSqliteStore and createFsStore have no connection to wait for
CreateSqliteStore ==
  /\ backend' = Adapter("sqlite", "none")
  /\ BackendFrame

CreateFsStore ==
  /\ backend' = Adapter("fs", "none")
  /\ BackendFrame

\* the backend accepts the connection (PostgreSQL: and the table and the
\* index exist), or refuses it
ConnectionSettles(how) ==
  /\ backend.promise = "pending"
  /\ backend' = [backend EXCEPT !.promise = how]
  /\ BackendFrame

\* the operation runs past its await: it sends its commands, or fails with
\* the connection's error
Run(b, op, failAt) ==
  IF b.promise = "rejected"
  THEN [b EXCEPT !.out = Settled(op, 0, Thrown("ConnectionFailed", <<b.adapter>>))]
  ELSE [Issued(b, op) EXCEPT
          !.out = Settled(op, failAt,
                          IF op = "stats" THEN stats(b.adapter, failAt) ELSE Undef)]

\* store.op(...) is called on a Redis or PostgreSQL adapter
CallOperation(op, failAt) ==
  /\ backend.adapter \in {"redis", "pg"} /\ ~backend.closed
  /\ Len(backend.issued) + Cardinality(backend.waiting) < MaxIssued
  /\ op \notin backend.waiting
  /\ failAt = 0 \/ op = "stats"
  /\ backend' = IF backend.promise = "pending"
                THEN [backend EXCEPT !.waiting = @ \cup {op}]
                ELSE Run(backend, op, failAt)
  /\ BackendFrame

\* the promise is settled and a suspended operation goes on
ResumeOperation(op, failAt) ==
  /\ op \in backend.waiting
  /\ backend.promise # "pending"
  /\ failAt = 0 \/ op = "stats"
  /\ backend' = Run([backend EXCEPT !.waiting = @ \ {op}], op, failAt)
  /\ BackendFrame

\* store.stats() on a SQLite or fs adapter
Stats(failAt) ==
  /\ backend.adapter \in {"sqlite", "fs"} /\ ~backend.closed
  /\ failAt <= StatsSteps(backend.adapter)
  /\ Len(backend.issued) < MaxIssued
  /\ backend' = Run(backend, "stats", failAt)
  /\ BackendFrame

\* store.disconnect(): redis.disconnect() or client.end() is called at
\* once, db.close() for SQLite, nothing for fs
Disconnect ==
  /\ backend.adapter # "none" /\ ~backend.closed
  /\ backend' = [(IF backend.adapter = "fs" THEN backend
                   ELSE Issued(backend, "disconnect"))
                   EXCEPT !.closed = TRUE, !.out = Settled("disconnect", 0, Undef)]
  /\ BackendFrame

BackendNext ==
  \/ CreateRedisStore
  \/ CreatePostgresStore
  \/ CreateSqliteStore
  \/ CreateFsStore
  \/ \E how \in {"resolved", "rejected"} : ConnectionSettles(how)
  \/ \E op \in AwaitingOps, failAt \in 0..3 : CallOperation(op, failAt)
  \/ \E op \in AwaitingOps, failAt \in 0..3 : ResumeOperation(op, failAt)
  \/ \E failAt \in 0..3 : Stats(failAt)
  \/ Disconnect

InitBackend == StoreIdle /\ ClientStart("legacy") /\ ServerStart

SpecBackend == InitBackend /\ [][BackendNext]_vars

\* ------------------------------------------------------------------------
\* Claims about the fs store and a damaged file
\* ------------------------------------------------------------------------
\* the last call found the file missing or holding unparseable content
FoundDamaged == res.found \in {"missing", "unparseable"}

\* C29: an operation of the fs store that is run when the file is missing
\* or holds unparseable content behaves as on an empty store (read returns
\* absent, exists returns false, keys returns the empty list, write stores
\* only its own key), leaves the file holding a valid JSON object, and
\* raises no error.
C29_DamagedFileIsEmptyStore ==
  FoundDamaged =>
    /\ ~IsThrown(res.out)
    /\ Tag(fsFile) = "obj"
    /\ res.op = "read" => res.out = Null /\ fsFile = EmptyDoc
    /\ res.op = "exists" => res.out = Bool(FALSE) /\ fsFile = EmptyDoc
    /\ res.op = "keys" => res.out = List(<<>>) /\ fsFile = EmptyDoc
    /\ res.op = "delete" => res.out = Bool(FALSE) /\ fsFile = EmptyDoc
    /\ res.op = "cleanup" => res.out = Num(0) /\ fsFile = EmptyDoc
    /\ res.op = "write" =>
         /\ ObjectKeys(fsFile) = <<res.k>>
         /\ GetProp(GetProp(fsFile, res.k), <<"value">>) = res.v

\* a key was written, the file was then overwritten with text that is no
\* JSON, and the next write left a document with only its own key
C29_Witness ==
  /\ res.op = "write" /\ res.found = "unparseable"
  /\ writes = 2
  /\ ObjectKeys(fsFile) = <<res.k>>

\* ------------------------------------------------------------------------
\* Claims about the connection and the statistics
\* ------------------------------------------------------------------------
\* C26: in the Redis and PostgreSQL adapters no store operation, disconnect
\* included, sends a command to the backend before the one connect or
\* initialization promise made at construction has resolved, in whatever
\* order the operations are called after construction.
C26_NoCommandBeforeConnected ==
  backend.adapter \in {"redis", "pg"}
    => \A i \in 1..Len(backend.issued) : backend.issued[i].promise = "resolved"

\* stats() ended, with a failure in one of its steps
StatsFailed(adapter) ==
  /\ backend.adapter = adapter
  /\ backend.out.op = "stats"
  /\ backend.out.failAt > 0

\* C27: in the PostgreSQL adapter, when any of the three statistics
\* queries fails, stats() returns normally and all three fields are at
\* their defaults (totalKeys 0, tableSize "N/A", dbInfo "N/A"), whichever
\* query failed.
C27_PgStatsAllDefaults ==
  StatsFailed("pg")
    => backend.out.value
         = StatsOf("totalKeys", "tableSize", "dbInfo",
                   Num(0), Str(<<"N/A">>), Str(<<"N/A">>))

\* C28: in all four adapters a failure while the statistics are gathered
\* does not propagate out of stats(): the call returns an object.
C28_StatsNeverThrows ==
  \A a \in {"fs", "redis", "pg", "sqlite"} :
    StatsFailed(a) => Tag(backend.out.value) = "obj"

====
